---------------------------- MODULE Spec2Model ----------------------------
(***************************************************************************)
(* Behavioural model of cocotbext-interfaces: the Avalon-ST streaming      *)
(* interface, the state hierarchy BaseModel._elaborate builds from its     *)
(* controls, the event loop, and the input/output calls of a SourceModel   *)
(* and a PassiveSinkModel bound to one bundle of wires.                    *)
(***************************************************************************)
EXTENDS Integers, Sequences, FiniteSets, TLC

\* ------------------------------------------------------------------------
\* Bounds of the model
\* ------------------------------------------------------------------------
NCallers == 2
MaxLen == 2
MaxWord == 2
\* readyAllowance and readyLatency of the back-pressured interface
ReadyAllowance == 2
ReadyLatency == 1
\* Widest handle a signal is bound to
MaxWidth == 2

Callers == 1..NCallers
Words == 1..MaxWord
Models == {"src", "snk"}
None == "None"
\* The values a channel wire carries
Channels == {"0", "1"}
\* A volatile hook attribute the model does not have
NoCount == -1

\* ------------------------------------------------------------------------
\* State of the program
\* ------------------------------------------------------------------------
VARIABLES
    sig,           \* a Signal or Control of its own: its attributes, the value on
                   \* its handle, and what the latest drive or capture did
    itf,           \* an interface assembled by _specify calls: its signals, the
                   \* names that got a handle, and the result of the latest call
    bound,         \* names of the signals the entity has: the interface's handles
    props,         \* interface properties: ready_allowance, ready_latency, and
                   \* whether the sink's ready control was given a generator
    wire,          \* value on each wire of the bundle both models are bound to
    state,         \* per model: current state of its machine (a path)
    busy,          \* per model: self.busy
    busy_event,    \* per model: whether self.busy_event is set
    buff,          \* per model: self.buff, one deque per key of _txn(primary)
    in_pkt,        \* per model: self.in_pkt ("None", "False", "True")
    prev_channel,  \* PassiveSinkModel.prev_channel
    count,         \* per model: the volatile hook attributes of the delay states
    cache,         \* Control._cache of the sink's ready ("None", "False", "True")
    pulls,         \* number of values taken from the generator of the sink's ready
    pc,            \* per caller: where its coroutine is suspended
    op,            \* per caller: the call it made
    tgt,           \* per caller: the model it called
    txn,           \* per caller: the transaction passed to input
    pend,          \* per caller: reactions of the current event loop not yet run
    err,           \* per caller: the exception that ended its call
    out,           \* per caller: what output returned
    ran,           \* per caller: reactions its latest event loop invoked
    order,         \* history: callers in the order of their calls
    calledBusy,    \* history, per caller: self.busy at the moment of its call
    log            \* history: what SourceModel.valid_cycle left on the wires

vars == <<sig, itf, bound, props, wire, state, busy, busy_event, buff, in_pkt, prev_channel,
          count, cache, pulls,
          pc, op, tgt, txn, pend, err, out, ran, order, calledBusy, log>>

\* What the machine's advance alone may change besides the state
hsmVars == <<count, cache, pulls>>

modelVars == <<wire, state, busy, busy_event, buff, in_pkt, prev_channel, log, hsmVars>>

\* ------------------------------------------------------------------------
\* Signals and controls (signal.py), interface specifications
\* ------------------------------------------------------------------------
Signal(name, direction, meta, required) ==
    [name |-> name, ctrl |-> FALSE, direction |-> direction, meta |-> meta,
     required |-> required, precedence |-> 0, flow_vals |-> {}, fix_vals |-> {},
     max_allowance |-> 0, max_latency |-> 0, allowance |-> 0, latency |-> 0]

\* Control.__init__: always meta; flow_vals/fix_vals default to {True}/{False}
Control(name, direction, required, precedence, flow_vals, fix_vals, max_allowance, max_latency) ==
    [name |-> name, ctrl |-> TRUE, direction |-> direction, meta |-> TRUE,
     required |-> required, precedence |-> precedence,
     flow_vals |-> IF flow_vals # {} THEN flow_vals ELSE {TRUE},
     fix_vals |-> IF fix_vals # {} THEN fix_vals ELSE {FALSE},
     max_allowance |-> max_allowance, max_latency |-> max_latency,
     allowance |-> 0, latency |-> 0]

StreamingSpecification ==
    { Signal("channel", "FROM_PRIMARY", FALSE, FALSE),
      Signal("data", "FROM_PRIMARY", FALSE, FALSE),
      Signal("error", "FROM_PRIMARY", FALSE, FALSE),
      Signal("empty", "FROM_PRIMARY", TRUE, FALSE),
      Signal("endofpacket", "FROM_PRIMARY", TRUE, FALSE),
      Signal("startofpacket", "FROM_PRIMARY", TRUE, FALSE),
      Control("ready", "TO_PRIMARY", FALSE, 0, {}, {}, 8, 8),
      Control("valid", "FROM_PRIMARY", FALSE, 1, {}, {}, 0, 0) }

ClockSpecification == { Signal("clk", "FROM_PRIMARY", TRUE, TRUE) }

ResetSpecification ==
    { Control("reset", "FROM_PRIMARY", TRUE, 0, {FALSE}, {TRUE}, 0, 0),
      Control("reset_req", "FROM_PRIMARY", FALSE, 1, {}, {}, 0, 0) }

SetMax(S) == CHOOSE x \in S : \A y \in S : y <= x

SetMin(S) == CHOOSE x \in S : \A y \in S : x <= y

controls(signals) == {s \in signals : s.ctrl}

pmax(signals) ==
    IF controls(signals) = {} THEN None
    ELSE SetMax({c.precedence : c \in controls(signals)})

\* _specify with an offset that lacks the + 1
_specify_noplus(signals, spec, precedes) ==
    LET offset == IF precedes THEN pmax(spec) ELSE pmax(signals)
        known == IF precedes THEN TRUE ELSE controls(signals) # {}
        shift(s) == IF s.ctrl /\ known
                    THEN [s EXCEPT !.precedence = s.precedence + offset]
                    ELSE s
    IN  IF controls(spec) = {} THEN signals \cup spec
        ELSE IF precedes THEN {shift(s) : s \in signals} \cup spec
        ELSE signals \cup {shift(s) : s \in spec}

pmin(signals) ==
    IF controls(signals) = {} THEN None
    ELSE SetMin({c.precedence : c \in controls(signals)})

floor(signals) == {c \in controls(signals) : c.precedence = pmin(signals)}

ceiling(signals) == {c \in controls(signals) : c.precedence = pmax(signals)}

\* BaseInterface._specify: the precedence shift of new against existing controls
_specify(signals, spec, precedes) ==
    LET offset == IF precedes THEN pmax(spec) ELSE pmax(signals)
        known == IF precedes THEN TRUE ELSE controls(signals) # {}
        shift(s) == IF s.ctrl /\ known
                    THEN [s EXCEPT !.precedence = s.precedence + (offset + 1)]
                    ELSE s
    IN  IF controls(spec) = {} THEN signals \cup spec
        ELSE IF precedes THEN {shift(s) : s \in signals} \cup spec
        ELSE signals \cup {shift(s) : s \in spec}

\* BaseSynchronousInterface.__init__: own specification, then clock and reset
\* specified with precedes=True
InterfaceSignals ==
    _specify(_specify(_specify({}, StreamingSpecification, FALSE),
                      ClockSpecification, TRUE),
             ResetSpecification, TRUE)

\* StreamingInterface.__init__: the ready control of an entity that has ready
\* gets the interface's allowance and latency
Configure(signals, bnd, pr) ==
    { IF s.name = "ready" /\ "ready" \in bnd
      THEN [s EXCEPT !.allowance = pr.ready_allowance, !.latency = pr.ready_latency]
      ELSE s : s \in signals }

\* The interface properties: none given, and those of a back-pressured
\* interface, each with or without a generator on the sink's ready
Props(a, l, g) == [ready_allowance |-> a, ready_latency |-> l, generated |-> g]
DefaultProps == Props(0, 0, FALSE)
DelayProps ==
    { Props(0, 0, TRUE),
      Props(ReadyAllowance, ReadyLatency, FALSE),
      Props(ReadyAllowance, ReadyLatency, TRUE) }

\* The entities the interface is bound to: the set of signal names that have a
\* handle.  clk and reset are required.  The entities of a source and a sink
\* on one bundle have valid and data; the packet signals come as a pair
\* (StreamingInterface.__init__ refuses one without the other).
Base == {"clk", "reset", "valid", "data"}
EntitySeq ==
    << Base,
       Base \cup {"startofpacket", "endofpacket"},
       Base \cup {"ready"},
       Base \cup {"startofpacket", "endofpacket", "ready"} >>
Entities == {EntitySeq[i] : i \in DOMAIN EntitySeq}

\* The entities a sink monitors: packets with or without data and channel,
\* and a channel or data without packets
Packet == {"clk", "reset", "valid", "startofpacket", "endofpacket"}
MonitorEntities ==
    { Packet, Packet \cup {"channel"}, Packet \cup {"data"},
      {"clk", "reset", "valid", "channel"}, Base }

\* The entities with back-pressure
ReadyEntities == {b \in Entities : "ready" \in b}

\* Entities without valid: valid is not required
ForcedEntities ==
    { {"clk", "reset"}, {"clk", "reset", "data"}, {"clk", "reset", "channel"},
      {"clk", "reset", "ready"}, {"clk", "reset", "ready", "data"} }

\* What the elaboration of a model depends on: the controls that have a
\* handle and the delays of ready
Config(bnd, pr) ==
    [handles |-> {c.name : c \in controls(InterfaceSignals)} \cap bnd,
     allowance |-> IF "ready" \in bnd THEN pr.ready_allowance ELSE 0,
     latency |-> IF "ready" \in bnd THEN pr.ready_latency ELSE 0]
RECURSIVE SeqOfSet(_)
SeqOfSet(S) ==
    IF S = {} THEN <<>>
    ELSE LET x == CHOOSE y \in S : TRUE IN <<x>> \o SeqOfSet(S \ {x})
ConfigSeq ==
    SeqOfSet({Config(b, DefaultProps) :
                 b \in Entities \cup MonitorEntities \cup ForcedEntities}
             \cup {Config(b, pr) : b \in ReadyEntities, pr \in DelayProps})

\* StreamingInterface.packets
packets(bnd) ==
    "empty" \in bnd \/ "startofpacket" \in bnd \/ "endofpacket" \in bnd

\* Model roles: SourceModel is primary, PassiveSinkModel is not
primary(m) == IF m = "src" THEN "True" ELSE "False"

\* _txn without the test of meta
BaseInterface_txn_meta(signals, handles, prim) ==
    LET d == IF prim = "True" THEN "FROM_PRIMARY"
             ELSE IF prim = None THEN "BIDIRECTIONAL" ELSE "TO_PRIMARY"
    IN  {s.name : s \in {t \in signals :
                            t.name \in handles /\ t.direction = d}}

\* BaseInterface._txn on an interface with the given signals, those named in
\* handles being instantiated
BaseInterface_txn(signals, handles, prim) ==
    LET d == IF prim = "True" THEN "FROM_PRIMARY"
             ELSE IF prim = None THEN "BIDIRECTIONAL" ELSE "TO_PRIMARY"
    IN  {s.name : s \in {t \in signals :
                            t.name \in handles /\ ~t.meta /\ t.direction = d}}

\* BaseInterface._txn of the streaming interface
_txn(prim, bnd) == BaseInterface_txn(InterfaceSignals, bnd, prim)

\* ------------------------------------------------------------------------
\* Reactions declared on the models (streaming.py decorators)
\* ------------------------------------------------------------------------
Reaction(fn, cname, val, force, smode) ==
    [fn |-> fn, cname |-> cname, val |-> val, force |-> force, smode |-> smode]

\* A reaction declared without smode runs in the read-only phase
reactions(m) ==
    IF m = "src"
    THEN { Reaction("reset", "reset", TRUE, FALSE, "ReadOnly"),
           Reaction("assert_valid", "valid", FALSE, FALSE, "NextTimeStep"),
           Reaction("valid_cycle", "valid", TRUE, TRUE, "NextTimeStep") }
    ELSE { Reaction("reset", "reset", TRUE, FALSE, "ReadOnly"),
           Reaction("valid_cycle", "valid", TRUE, TRUE, "ReadOnly") }

smode(m, fn) == (CHOOSE r \in reactions(m) : r.fn = fn).smode

\* ------------------------------------------------------------------------
\* BaseModel._elaborate: the nested state description
\* ------------------------------------------------------------------------
\* str(val).upper() of a Python bool
Str(val) == IF val THEN "TRUE" ELSE "FALSE"

Upper(name) ==
    CASE name = "reset" -> "RESET"
      [] name = "reset_req" -> "RESET_REQ"
      [] name = "ready" -> "READY"
      [] name = "valid" -> "VALID"
      [] name = "hold" -> "HOLD"
      [] name = "stop" -> "STOP"

\* A set of bools in Python's iteration order (hash False = 0, hash True = 1)
SeqOfVals(vals) == SelectSeq(<<FALSE, TRUE>>, LAMBDA v : v \in vals)

Last(seq) == seq[Len(seq)]

\* The list a comprehension builds
List(f) == f \o <<>>

\* A guard is the data of one lambda of the elaborator: kind "eq" is
\* sample() == val, "ne" is sample() != val, "flow"/"fix" are membership of the
\* sample in flow_vals/fix_vals, "wait" compares the delay counter (the hook
\* ctl) to its limit val
Guard(kind, ctl, val) == [kind |-> kind, ctl |-> ctl, val |-> val]

Trans(source, dest, conditions, after) ==
    [trigger |-> "advance", source |-> source, dest |-> dest,
     conditions |-> conditions, after |-> after]

\* node(): on_enter is TRUE when the list holds the lambda that triggers
\* advance; initial is None when the key is absent
node(name) ==
    [name |-> name, tags |-> {}, children |-> <<>>, on_enter |-> FALSE,
     transitions |-> <<>>, conditions |-> <<>>, influences |-> <<>>,
     reactions |-> <<>>, initial |-> None, volatile |-> FALSE, hook |-> None]

is_flow(s) == "flow" \in s.tags
is_fix(s) == "fix" \in s.tags
is_leaf(s) == s.children = <<>>

\* value() with a reaction matched by the name of the control alone
value_anyval(ctrl, val, isflow, delayed, cond, infl, react, R) ==
    LET pcon == Guard("eq", ctrl.name, val)
        ncon == Guard("ne", ctrl.name, val)
        match == {r \in R : r.cname = ctrl.name}
        react1 == react \o (IF match = {} THEN <<>>
                            ELSE <<(CHOOSE r \in match : TRUE).fn>>)
        cond1 == cond \o <<pcon>>
        tag == IF isflow THEN "flow" ELSE "fix"
        n == [node(Str(val)) EXCEPT !.tags = {tag}, !.conditions = cond1,
                                    !.influences = infl, !.reactions = react1]
    IN  n

value(ctrl, val, isflow, delayed, cond, infl, react, R) ==
    LET pcon == Guard("eq", ctrl.name, val)
        ncon == Guard("ne", ctrl.name, val)
        match == {r \in R : r.cname = ctrl.name /\ r.val = val}
        react1 == react \o (IF match = {} THEN <<>>
                            ELSE <<(CHOOSE r \in match : TRUE).fn>>)
        cond1 == cond \o <<pcon>>
        tag == IF isflow THEN "flow" ELSE "fix"
        subname == IF isflow THEN "ALLOWANCE" ELSE "LATENCY"
        hook == <<ctrl.name, subname>>
        \* the limit is read from the control when the guard is called; it is
        \* not changed after the interface is built
        wait == Guard("wait", hook, IF isflow THEN ctrl.allowance ELSE ctrl.latency)
        n == [node(Str(val)) EXCEPT !.tags = {tag}, !.conditions = cond1,
                                    !.influences = infl, !.reactions = react1]
        sub == [node(subname) EXCEPT !.tags = {tag, "wait"}, !.volatile = TRUE,
                                     !.hook = hook, !.influences = infl,
                                     !.reactions = react1,
                                     !.conditions = cond1 \o <<ncon>>]
    IN  IF delayed
        THEN [n EXCEPT !.children = <<sub>>,
                       !.transitions =
                          << Trans(<<"BASE">>, subname, cond1 \o <<ncon>>, None),
                             Trans(<<subname>>, None, cond1 \o <<ncon, wait>>, hook) >>]
        ELSE n

\* flow() and fix(): one value state per value plus an INIT stub.  The guard
\* lambda of every transition reads the comprehension variable fv after the
\* comprehension has ended, i.e. the last value.
values(name, vals, isflow, ctrl, delayed, cond, infl, react, R) ==
    LET vs == SeqOfVals(vals)
        c == [i \in 1..Len(vs) |->
                 value(ctrl, vs[i], isflow, delayed, cond, infl, react, R)]
             \o <<node("INIT")>>
        t == List([i \in 1..Len(vs) |->
                 Trans(<<"INIT">> \o [j \in 1..Len(SelectSeq(vs, LAMBDA v : v # vs[i]))
                                        |-> Str(SelectSeq(vs, LAMBDA v : v # vs[i])[j])],
                       Str(vs[i]),
                       cond \o <<Guard("eq", ctrl.name, Last(vs))>>,
                       None)])
    IN  [node(name) EXCEPT !.children = c, !.influences = infl,
                           !.reactions = react, !.initial = "INIT",
                           !.on_enter = TRUE, !.transitions = t,
                           !.conditions = cond]

flow(ctrl, delayed, cond, infl, react, R) ==
    values("FLW", ctrl.flow_vals, TRUE, ctrl, delayed, cond, infl, react, R)

fix(ctrl, delayed, cond, infl, react, R) ==
    values("FXD", ctrl.fix_vals, FALSE, ctrl, delayed, cond, infl, react, R)

nestify(ctrl, cond, infl, react, R) ==
    [node(Upper(ctrl.name)) EXCEPT
        !.conditions = cond,
        !.reactions = react,
        !.children = << flow(ctrl, ctrl.allowance > 0, cond, infl, react, R),
                        fix(ctrl, ctrl.latency > 0, cond, infl, react, R),
                        node("INIT") >>,
        !.influences = infl,
        !.initial = "INIT",
        !.on_enter = TRUE,
        !.transitions =
            << Trans(<<"INIT", "FXD">>, "FLW", cond \o <<Guard("flow", ctrl.name, ctrl.flow_vals)>>, None),
               Trans(<<"INIT", "FLW">>, "FXD", cond \o <<Guard("fix", ctrl.name, ctrl.fix_vals)>>, None) >>]

\* add_level that takes no notice of forced reactions
expand_unforced(f, ctrl, bnd, R) ==
    IF ctrl.name \in bnd
    THEN [f EXCEPT !.tags = f.tags \ {"flow"},
                   !.transitions = <<>>,
                   !.initial = Upper(ctrl.name),
                   !.children = f.children \o
                       <<nestify(ctrl, f.conditions,
                                 f.influences \o <<ctrl.name>>,
                                 f.reactions, R)>>]
    ELSE f

\* add_level on one flower, for the one control of a precedence level (the
\* controls view is a set of objects that compare and hash by precedence, so a
\* level never holds more than one control)
expand(f, ctrl, bnd, R) ==
    LET forced == {r \in R : r.cname = ctrl.name /\ r.force}
    IN  IF ctrl.name \in bnd
        THEN [f EXCEPT !.tags = f.tags \ {"flow"},
                       !.transitions = <<>>,
                       !.initial = Upper(ctrl.name),
                       !.children = f.children \o
                           <<nestify(ctrl, f.conditions,
                                     f.influences \o <<ctrl.name>>,
                                     f.reactions, R)>>]
        ELSE IF forced # {}
        THEN [f EXCEPT !.tags = f.tags \ {"flow"},
                       !.initial = Upper(ctrl.name),
                       !.children =
                           << [node(Upper(ctrl.name)) EXCEPT
                                 !.tags = {"flow"},
                                 !.influences = f.influences,
                                 !.conditions = f.conditions,
                                 !.reactions = f.reactions \o
                                     <<(CHOOSE r \in forced : TRUE).fn>>] >>,
                       !.transitions = <<>>,
                       !.on_enter = FALSE]
        ELSE f

\* get_flowers + the in-place rewrite of every flower
RECURSIVE add_level(_, _, _, _)
add_level(nest, ctrl, bnd, R) ==
    IF is_fix(nest) THEN nest
    ELSE IF is_leaf(nest) /\ is_flow(nest) THEN expand(nest, ctrl, bnd, R)
    ELSE [nest EXCEPT !.children =
             List([i \in 1..Len(nest.children) |->
                     add_level(nest.children[i], ctrl, bnd, R)])]

\* sorted(self.itf.controls)
RECURSIVE SortedControls(_)
SortedControls(cs) ==
    IF cs = {} THEN <<>>
    ELSE LET c == CHOOSE x \in cs : \A y \in cs : x.precedence <= y.precedence
         IN  <<c>> \o SortedControls(cs \ {c})

RECURSIVE add_levels(_, _, _, _)
add_levels(bh, levels, bnd, R) ==
    IF levels = <<>> THEN bh
    ELSE add_levels(add_level(bh, Head(levels), bnd, R), Tail(levels), bnd, R)

\* BaseModel._elaborate for a model with the reactions R on an interface whose
\* controls view is cs, the signals named in bnd having a handle
BaseModel_elaborate(cs, bnd, R) ==
    LET bh == add_levels([node("ROOT") EXCEPT !.tags = {"flow"}],
                         SortedControls(cs), bnd, R)
    IN  [node("TOP") EXCEPT
            !.children = << [node("NULL") EXCEPT !.tags = {"fix"}], bh >>,
            !.initial = "NULL",
            !.transitions = << Trans(<<"NULL">>, "ROOT", <<>>, None),
                               Trans(<<"ROOT">>, "NULL", <<>>, None) >>]

\* BaseModel._elaborate of the streaming models
_elaborate(m, bnd, pr) ==
    BaseModel_elaborate(controls(Configure(InterfaceSignals, bnd, pr)), bnd,
                        reactions(m))

\* self._elaborated: elaborated once per model at construction, here for
\* every entity the interface may be bound to
Elaborated ==
    LET pr(c) == Props(c.allowance, c.latency, FALSE)
    IN  [src |-> List([i \in DOMAIN ConfigSeq |->
                         _elaborate("src", ConfigSeq[i].handles, pr(ConfigSeq[i]))]),
         snk |-> List([i \in DOMAIN ConfigSeq |->
                         _elaborate("snk", ConfigSeq[i].handles, pr(ConfigSeq[i]))])]

machine(m, bnd, pr) ==
    Elaborated[m][CHOOSE i \in DOMAIN ConfigSeq : ConfigSeq[i] = Config(bnd, pr)]

\* ------------------------------------------------------------------------
\* The hierarchical state machine runtime (the transitions package's
\* HierarchicalMachine with queued=True).  The current state is the path of
\* state names from TOP down to the current leaf.
\* ------------------------------------------------------------------------
TOP_NULL == <<"TOP", "NULL">>

Range(seq) == {seq[i] : i \in DOMAIN seq}

Child(n, name) ==
    n.children[CHOOSE i \in DOMAIN n.children : n.children[i].name = name]

RECURSIVE get_state(_, _)
get_state(root, path) ==
    IF Len(path) <= 1 THEN root
    ELSE get_state(Child(root, path[2]), Tail(path))

\* Signal.capture of an active-high signal: the value on the wire
capture(w, name) == w[name]

\* The generator given to the sink's ready: True, False, True, ...
Generator(i) == i % 2 = 1

\* Control.next: the next value of the generator.  e is what an advance works
\* on: e = [wire, count, cache, pulls, gen], gen telling whether the ready
\* control of this model has a generator.
next(e) == Generator(e.pulls + 1)

Bool3(v) == IF v THEN "True" ELSE "False"

\* What Control.capture does to a generated control: with an empty cache the
\* next value is pulled, driven on the wire and cached (Control.drive)
Pull(e) ==
    IF e.gen /\ e.cache = None
    THEN [e EXCEPT !.cache = Bool3(next(e)), !.pulls = @ + 1,
                   !.wire = [@ EXCEPT !.ready = next(e)]]
    ELSE e

\* Control.capture: the cache of a generated control, else Signal.capture
Control_capture(e, name) ==
    IF e.gen /\ name = "ready" THEN Pull(e).cache = "True"
    ELSE capture(e.wire, name)

\* What a guard lambda of the elaborator says of the sample v of its control
sampled(g, v) ==
    CASE g.kind = "eq" -> v = g.val
      [] g.kind = "ne" -> v # g.val
      [] g.kind \in {"flow", "fix"} -> v \in g.val

\* Evaluation of one guard lambda of the elaborator
holds(g, e) ==
    IF g.kind = "wait" THEN g.val > e.count[g.ctl[2]]
    ELSE sampled(g, Control_capture(e, g.ctl))

Fires(t, name, e) ==
    /\ name \in Range(t.source)
    /\ \A i \in DOMAIN t.conditions : holds(t.conditions[i], e)

\* Whether evaluating the guards of t, in order and up to the first that
\* fails, captures the generated control
Captures(t, e) ==
    \E i \in DOMAIN t.conditions :
        /\ t.conditions[i].kind # "wait" /\ t.conditions[i].ctl = "ready"
        /\ \A j \in 1..(i - 1) : holds(t.conditions[j], e)

\* The transitions of the state at position i of the path are declared on its
\* parent; the scan goes from the leaf upward and the first transition in
\* declaration order whose guards hold is taken.  captured tells whether a
\* guard evaluated on the way captured the generated control.
\* The scan begun at the root: a transition declared further up wins
RECURSIVE scan_rootfirst(_, _, _, _)
scan_rootfirst(root, path, e, i) ==
    IF i < 2 THEN [found |-> FALSE, scope |-> 0, trans |-> None, captured |-> FALSE]
    ELSE LET parent == get_state(root, SubSeq(path, 1, i - 1))
             hits == {j \in DOMAIN parent.transitions :
                         Fires(parent.transitions[j], path[i], e)}
             up == scan_rootfirst(root, path, e, i - 1)
         IN  IF up.found THEN up
             ELSE IF hits # {}
             THEN [found |-> TRUE, scope |-> i - 1,
                   trans |-> parent.transitions[SetMin(hits)], captured |-> FALSE]
             ELSE up

RECURSIVE scan(_, _, _, _)
scan(root, path, e, i) ==
    IF i < 2 THEN [found |-> FALSE, scope |-> 0, trans |-> None, captured |-> FALSE]
    ELSE LET parent == get_state(root, SubSeq(path, 1, i - 1))
             from == {j \in DOMAIN parent.transitions :
                         path[i] \in Range(parent.transitions[j].source)}
             hits == {j \in from : Fires(parent.transitions[j], path[i], e)}
             tried == IF hits = {} THEN from ELSE {j \in from : j <= SetMin(hits)}
             cap == e.gen /\ \E j \in tried : Captures(parent.transitions[j], e)
         IN  IF hits # {}
             THEN [found |-> TRUE, scope |-> i - 1,
                   trans |-> parent.transitions[SetMin(hits)], captured |-> cap]
             ELSE LET up == scan(root, path, e, i - 1)
                  IN  [up EXCEPT !.captured = @ \/ cap]

\* Entering a composite state enters its initial child
RECURSIVE descend(_, _)
descend(root, path) ==
    LET n == get_state(root, path)
    IN  IF n.initial = None THEN path ELSE descend(root, path \o <<n.initial>>)

\* The hooks of the volatile states on a path below position scope, the path
\* starting at n
RECURSIVE Hooks(_, _, _)
Hooks(n, path, scope) ==
    (IF scope < 1 /\ n.volatile THEN {n.hook[2]} ELSE {})
    \cup (IF Len(path) <= 1 THEN {}
          ELSE Hooks(Child(n, path[2]), Tail(path), scope - 1))

\* One advance event: the new state, what it did to the wires, the generator
\* and the hooks, and the number of advance events the on_enter callbacks of
\* the entered states put on the queue.  A transition without dest is
\* internal: no state is left or entered, its after callback runs.  Leaving a
\* volatile state deletes its hook, entering one sets it to int().
trigger(root, path, e) ==
    LET h == scan(root, path, e, Len(path))
        e1 == IF e.gen /\ h.captured THEN Pull(e) ELSE e
    IN  IF ~h.found THEN [state |-> path, queued |-> 0, e |-> e1]
        ELSE IF h.trans.dest = None
        THEN [state |-> path, queued |-> 0,
              e |-> IF h.trans.after = None THEN e1
                    ELSE [e1 EXCEPT !.count[h.trans.after[2]] = @ + 1]]
        ELSE LET np == descend(root, SubSeq(path, 1, h.scope) \o <<h.trans.dest>>)
                 left == Hooks(root, path, h.scope)
                 entered == Hooks(root, np, h.scope)
             IN  [state |-> np,
                  queued |-> Cardinality({k \in (h.scope + 1)..Len(np) :
                                 get_state(root, SubSeq(np, 1, k)).on_enter}),
                  e |-> [e1 EXCEPT !.count =
                           [k \in DOMAIN e1.count |->
                               IF k \in entered THEN 0
                               ELSE IF k \in left THEN NoCount
                               ELSE e1.count[k]]]]

\* The queue of events is worked off in order until it is empty
RECURSIVE dispatch(_, _, _, _)
dispatch(root, path, e, queue) ==
    IF queue = 0 THEN [state |-> path, e |-> e]
    ELSE LET r == trigger(root, path, e)
         IN  dispatch(root, r.state, r.e, queue - 1 + r.queued)

\* self.trigger('advance') of the event loop
advance(root, path, e) == dispatch(root, path, e, 1)

\* ------------------------------------------------------------------------
\* Transactions and buffers
\* ------------------------------------------------------------------------
RECURSIVE SeqsUpTo(_)
SeqsUpTo(n) ==
    IF n = 0 THEN {<<>>}
    ELSE SeqsUpTo(n - 1) \cup [1..n -> Words]

\* A transaction is a dict of iterables; its keys and the words under "data"
NoTxn == [keys |-> {}, data |-> <<>>]
Txns == {NoTxn} \cup {[keys |-> {"data"}, data |-> d] : d \in SeqsUpTo(MaxLen)}

RECURSIVE Reverse(_)
Reverse(seq) ==
    IF seq = <<>> THEN <<>> ELSE Reverse(Tail(seq)) \o <<Head(seq)>>

Front(seq) == SubSeq(seq, 1, Len(seq) - 1)

\* BaseModel.__init__: the keys of self._buff
keys(m, bnd) == _txn(primary(m), bnd)

\* BaseModel._load: deque.extendleft puts the items in front, reversed
_load(b, t) == [data |-> Reverse(t.data) \o b.data]

\* _flush without the clear
_flush_keep(b, ks) == [out |-> [keys |-> ks, data |-> b.data], buff |-> b]

\* BaseModel._flush: the lists returned, and the deques cleared
_flush(b, ks) == [out |-> [keys |-> ks, data |-> b.data], buff |-> [data |-> <<>>]]

\* The shape test as a subset test: a transaction that lacks keys passes
ShapeMismatchSubset(t, m, bnd) == ~(t.keys \subseteq _txn(primary(m), bnd))

\* BaseModel.input: the test that raises ValueError
ShapeMismatch(t, m, bnd) == t.keys # _txn(primary(m), bnd)

\* The context test against the name of the root instead of TOP_NULL
ContextViolatedTop(s) == s = <<"TOP">>

\* BaseModel._event_loop: the test that raises InterfaceProtocolError
ContextViolated(s) == s = TOP_NULL

\* BaseStreamingModel.__init__ / reset
InPktReset(bnd) == IF packets(bnd) THEN "False" ELSE None

\* ------------------------------------------------------------------------
\* Reactions (streaming.py).  A reaction works on the part of the state one
\* model owns plus the wires: ms = [wire, busy, buff, in_pkt, prev_channel,
\* log, err]; err is the exception the reaction raised, None if it returned.
\* ------------------------------------------------------------------------
Raise(ms, e) == [ms EXCEPT !.err = e]

\* BaseStreamingModel.reset, the reset reaction of SourceModel
BaseStreamingModel_reset(ms, bnd) == [ms EXCEPT !.in_pkt = InPktReset(bnd)]

\* PassiveSinkModel.reset
PassiveSinkModel_reset(ms, bnd) == [ms EXCEPT !.prev_channel = None]

\* SourceModel.assert_valid
assert_valid(ms, bnd) ==
    LET w1 == [ms.wire EXCEPT !.valid = TRUE]
    IN  IF ms.in_pkt # None /\ Len(ms.buff.data) > 0
        THEN [ms EXCEPT !.wire = [w1 EXCEPT !.startofpacket = TRUE]]
        ELSE [ms EXCEPT !.wire = w1]

\* valid_cycle clearing busy while a word is still in the buffer
SourceModel_valid_cycle_early(ms, bnd) ==
    IF "data" \notin keys("src", bnd) THEN Raise(ms, "KeyError")
    ELSE IF ms.buff.data = <<>> THEN Raise(ms, "IndexError")
    ELSE
      LET data == Last(ms.buff.data)
          b1 == [data |-> Front(ms.buff.data)]
          remaining == Len(b1.data)
          w1 == [ms.wire EXCEPT !.data = data]
          w2 == IF ms.in_pkt = "True"
                THEN [w1 EXCEPT !.startofpacket = FALSE,
                                !.endofpacket = IF remaining = 1 THEN TRUE ELSE @]
                ELSE w1
          w3 == [w2 EXCEPT !.valid = (remaining # 0)]
      IN  [ms EXCEPT !.buff = b1,
                     !.wire = w3,
                     !.busy = IF remaining > 1 THEN @ ELSE FALSE,
                     !.log = Append(@, [data |-> data, valid |-> w3.valid,
                                        startofpacket |-> w3.startofpacket,
                                        endofpacket |-> w3.endofpacket])]

\* SourceModel.valid_cycle
SourceModel_valid_cycle(ms, bnd) ==
    IF "data" \notin keys("src", bnd) THEN Raise(ms, "KeyError")
    ELSE IF ms.buff.data = <<>> THEN Raise(ms, "IndexError")
    ELSE
      LET data == Last(ms.buff.data)
          b1 == [data |-> Front(ms.buff.data)]
          remaining == Len(b1.data)
          w1 == [ms.wire EXCEPT !.data = data]
          w2 == IF ms.in_pkt = "True"
                THEN [w1 EXCEPT !.startofpacket = FALSE,
                                !.endofpacket = IF remaining = 1 THEN TRUE ELSE @]
                ELSE w1
          w3 == [w2 EXCEPT !.valid = (remaining # 0)]
      IN  [ms EXCEPT !.buff = b1,
                     !.wire = w3,
                     !.busy = IF remaining # 0 THEN @ ELSE FALSE,
                     !.log = Append(@, [data |-> data, valid |-> w3.valid,
                                        startofpacket |-> w3.startofpacket,
                                        endofpacket |-> w3.endofpacket])]

\* PassiveSinkModel.valid_cycle.  error and empty have no handle, so they are
\* captured as None; channel and data are captured when they have one.
\* mask_data reads data.value.binstr, and the value of a BinaryValue is an
\* int.  The buffers are those of keys("snk", bnd).
PassiveSinkModel_valid_cycle(ms, bnd) ==
    LET channel == IF "channel" \in bnd THEN capture(ms.wire, "channel") ELSE None
        hasData == "data" \in bnd
        sop == IF "startofpacket" \in bnd THEN capture(ms.wire, "startofpacket") ELSE FALSE
        eop == IF "endofpacket" \in bnd THEN capture(ms.wire, "endofpacket") ELSE FALSE
        pk == packets(bnd)
        in1 == IF pk /\ sop THEN "True" ELSE ms.in_pkt
        done == ~pk \/ eop
        ms1 == [ms EXCEPT !.in_pkt = in1]
        ms2 == [ms1 EXCEPT !.prev_channel = channel]
    IN  IF pk /\ sop /\ ms.in_pkt = "True" THEN Raise(ms, "ProtocolError:DuplicateSOP")
        ELSE IF pk /\ in1 # "True" THEN Raise(ms1, "ProtocolError:OutsidePacket")
        ELSE IF pk /\ ms.prev_channel # None /\ channel # ms.prev_channel
             THEN Raise(ms1, "ProtocolError:ChannelChanged")
        ELSE IF hasData /\ in1 = "True" /\ eop THEN Raise(ms2, "AttributeError")
        ELSE IF hasData /\ "data" \notin keys("snk", bnd) THEN Raise(ms2, "KeyError")
        ELSE LET ms3 == IF hasData
                        THEN [ms2 EXCEPT !.buff = [data |-> Append(ms.buff.data,
                                                        capture(ms.wire, "data"))]]
                        ELSE ms2
             IN  IF ~done THEN ms3
                 ELSE IF channel # None /\ "channel" \notin keys("snk", bnd)
                      THEN Raise(ms3, "KeyError")
                 ELSE [ms3 EXCEPT !.busy = FALSE]

\* fn(self) for a reaction of model m
React(m, fn, ms, bnd) ==
    CASE m = "src" /\ fn = "reset" -> BaseStreamingModel_reset(ms, bnd)
      [] m = "src" /\ fn = "assert_valid" -> assert_valid(ms, bnd)
      [] m = "src" /\ fn = "valid_cycle" -> SourceModel_valid_cycle(ms, bnd)
      [] m = "snk" /\ fn = "reset" -> PassiveSinkModel_reset(ms, bnd)
      [] m = "snk" /\ fn = "valid_cycle" -> PassiveSinkModel_valid_cycle(ms, bnd)

\* The loop over the reactions of the current state, up to the next await:
\* reactions whose smode is ReadOnly run at once, the first other one suspends
\* the loop.  r = [ms, rest, ran].
\* The loop without the awaits: every reaction runs where the loop stands
RECURSIVE RunReactions_atonce(_, _, _, _)
RunReactions_atonce(m, r, first, bnd) ==
    IF r.rest = <<>> \/ r.ms.err # None THEN r
    ELSE RunReactions_atonce(m,
                      [ms |-> React(m, Head(r.rest), r.ms, bnd),
                       rest |-> Tail(r.rest),
                       ran |-> Append(r.ran, Head(r.rest))],
                      FALSE, bnd)

RECURSIVE RunReactions(_, _, _, _)
RunReactions(m, r, first, bnd) ==
    IF r.rest = <<>> \/ r.ms.err # None THEN r
    ELSE IF ~first /\ smode(m, Head(r.rest)) # "ReadOnly" THEN r
    ELSE RunReactions(m,
                      [ms |-> React(m, Head(r.rest), r.ms, bnd),
                       rest |-> Tail(r.rest),
                       ran |-> Append(r.ran, Head(r.rest))],
                      FALSE, bnd)

\* ------------------------------------------------------------------------
\* A signal on its own (signal.py): drive and capture against its handle
\* ------------------------------------------------------------------------
\* A Python value: its type and its integer (True is 1, False is 0; a
\* BinaryValue is its integer)
Py(type, n) == [type |-> type, n |-> n]
PyNone == Py("NoneType", 0)
PyBool(b) == Py("bool", IF b THEN 1 ELSE 0)

\* isinstance(val, self.logical_type): bool is a subclass of int
isinstance(v, type) == v.type = type \/ (type = "int" /\ v.type = "bool")

RECURSIVE Pow2(_)
Pow2(w) == IF w = 0 THEN 1 ELSE 2 * Pow2(w - 1)

\* Python's a & b for b >= 0 (a negative a is an endless run of ones)
RECURSIVE BitAnd(_, _)
BitAnd(a, b) ==
    IF b = 0 THEN 0
    ELSE (a % 2) * (b % 2) + 2 * BitAnd(a \div 2, b \div 2)

\* "~val & len(self.handle)": the mask is the number of bits of the handle
Invert(n, bits) == BitAnd(-n - 1, bits)

\* handle.value of a wire with an undefined bit
Unresolvable == -1

\* Signal.__init__ / Control.__init__ and the handle setter: bits is
\* len(handle), 0 while the signal has no handle
NewSignal(ctrl, high, type, bits, filter, generated) ==
    [ctrl |-> ctrl, logic_active_high |-> high, logical_type |-> type,
     bits |-> bits, value |-> 0, filter |-> filter,
     generated |-> generated, cache |-> PyNone, pulled |-> 0,
     op |-> None, arg |-> PyNone, err |-> None, ret |-> PyNone,
     calls |-> 0, seen |-> PyNone]

instantiated(s) == s.bits > 0

\* The signals of the three logical types on handles of every width, and the
\* controls (one bit, bool), with or without a generator; a generator is
\* only given to a control that has a handle
SignalObjects ==
    {NewSignal(FALSE, h, t, b, f, FALSE) :
        h \in BOOLEAN, t \in {"bool", "int", "BinaryValue"},
        b \in 0..MaxWidth, f \in BOOLEAN}
    \cup {x \in {NewSignal(TRUE, h, "bool", b, f, g) :
                    h \in BOOLEAN, b \in {0, 1}, f \in BOOLEAN, g \in BOOLEAN} :
             x.generated => instantiated(x)}

\* The values a caller drives: bools, and ints and BinaryValues that fit
\* the handle
Values(bits) ==
    {PyBool(b) : b \in BOOLEAN}
    \cup {Py(t, n) : t \in {"int", "BinaryValue"}, n \in 0..(Pow2(bits) - 1)}

\* self.filter(val)
Filter(s, v) ==
    IF s.filter THEN [s EXCEPT !.calls = @ + 1, !.seen = v] ELSE s

\* Signal.drive
Signal_drive(s, v) ==
    IF ~instantiated(s) THEN [s EXCEPT !.err = "AttributeError"]
    ELSE IF ~isinstance(v, s.logical_type) THEN [s EXCEPT !.err = "TypeError"]
    ELSE [Filter(s, v) EXCEPT
            !.value = IF s.logic_active_high THEN v.n ELSE Invert(v.n, s.bits)]

\* Control.drive
Control_drive(s, v) ==
    Signal_drive(IF s.generated THEN [s EXCEPT !.cache = v] ELSE s, v)

\* Signal.capture
Signal_capture(s) ==
    IF ~instantiated(s) THEN [s EXCEPT !.err = "AttributeError"]
    ELSE IF s.value = Unresolvable THEN [s EXCEPT !.err = "ProtocolError:Unresolvable"]
    ELSE LET n == IF s.logic_active_high THEN s.value ELSE Invert(s.value, s.bits)
         IN  [Filter(s, Py("BinaryValue", n)) EXCEPT
                !.ret = CASE s.logical_type = "int" -> Py("int", n)
                          [] s.logical_type = "bool" -> PyBool(n # 0)
                          [] OTHER -> Py("BinaryValue", n)]

\* Control.capture: a generated control returns its cache, after driving the
\* next value of the generator when the cache is empty
Control_cached(s) ==
    IF ~s.generated THEN Signal_capture(s)
    ELSE LET d == IF s.cache = PyNone
                  THEN Control_drive([s EXCEPT !.pulled = @ + 1],
                                     PyBool(Generator(s.pulled + 1)))
                  ELSE s
         IN  IF d.err # None THEN d ELSE [d EXCEPT !.ret = d.cache]

\* The signal before a call: nothing returned, nothing raised, no filter call
Fresh(s, o, v) ==
    [s EXCEPT !.op = o, !.arg = v, !.err = None, !.ret = PyNone,
              !.calls = 0, !.seen = PyNone]

NoSignal == NewSignal(FALSE, TRUE, "bool", 0, FALSE, FALSE)

\* ------------------------------------------------------------------------
\* An interface under assembly (core.py)
\* ------------------------------------------------------------------------
\* Specifications of a user's interface: a bus with a bidirectional signal, a
\* signal to the primary and two controls, and one that names a signal twice
BusSpecification ==
    { Signal("io", "BIDIRECTIONAL", FALSE, FALSE),
      Signal("resp", "TO_PRIMARY", FALSE, FALSE),
      Control("grant", "TO_PRIMARY", FALSE, 0, {}, {}, 0, 0),
      Control("req", "FROM_PRIMARY", FALSE, 2, {}, {}, 0, 0) }

TwinSpecification ==
    { Signal("tag", "FROM_PRIMARY", FALSE, FALSE),
      Signal("tag", "FROM_PRIMARY", TRUE, FALSE) }

\* Python's equality of two signal objects: controls compare by precedence
\* (Control.__eq__, and __hash__ is the precedence), everything else by
\* identity
PyEq(x, y) == IF x.ctrl /\ y.ctrl THEN x.precedence = y.precedence ELSE x = y

\* The set Python builds from the objects of a display {o1, o2, ...}: an
\* object equal to one already in the set is not added
RECURSIVE PySet(_)
PySet(objects) ==
    IF objects = <<>> THEN {}
    ELSE LET front == PySet(SubSeq(objects, 1, Len(objects) - 1))
         IN  IF \E y \in front : PyEq(y, Last(objects)) THEN front
             ELSE front \cup {Last(objects)}

\* A specification with two controls on one precedence level, as its class
\* writes it down, and the set specification() returns
LevelDeclaration ==
    << Control("hold", "FROM_PRIMARY", FALSE, 0, {}, {}, 0, 0),
       Control("stop", "FROM_PRIMARY", FALSE, 0, {}, {}, 0, 0) >>

LevelSpecification == PySet(LevelDeclaration)

Specifications ==
    << StreamingSpecification, ClockSpecification, ResetSpecification,
       BusSpecification, TwinSpecification, LevelSpecification >>

Names(signals) == {x.name : x \in signals}

AllNames == UNION {Names(Specifications[k]) : k \in DOMAIN Specifications}

\* The entities an interface is assembled on, by the names they have: all,
\* all but some optional ones, and one without the required clk
Attributes ==
    { AllNames, AllNames \ {"ready", "channel", "io", "error", "empty"},
      AllNames \ {"clk", "resp"} }

\* The controls a model on an interface with the level specification samples
LevelWires == {"reset", "reset_req", "hold", "stop"}

\* What a call on the interface is given: _specify the specification
\* number k and precedes, _txn primary
Args(k, precedes, prim) == [k |-> k, precedes |-> precedes, primary |-> prim]

\* BaseInterface.__init__ before its call of _specify, on an entity with the
\* given names and with filters registered for the names in filters
NewInterface(entity, filters) ==
    [signals |-> {}, handles |-> {}, filtered |-> {},
     entity |-> entity, filters |-> filters,
     op |-> None, arg |-> Args(0, FALSE, None), err |-> None, ret |-> {},
     built |-> FALSE, machine |-> node("TOP"), state |-> TOP_NULL,
     wire |-> [c \in LevelWires |-> FALSE]]

NoInterface == NewInterface({}, {})

\* The test of _specify that raises ValueError
Duplicate(signals, spec) ==
    \E x \in signals, y \in spec : x.name = y.name

\* The interface after the call i._specify(spec, precedes).  A required
\* signal the entity lacks raises in the loop over spec, after the
\* precedences were shifted; the signals of spec met before it (added) are
\* in the interface.
BaseInterface_specify(i, spec, precedes, added) ==
    LET missing == {x \in spec : x.required /\ x.name \notin i.entity}
        all == _specify(i.signals, spec, precedes)
        new == IF missing = {} THEN Names(spec) ELSE Names(added)
        got == new \cap i.entity
    IN  IF Duplicate(i.signals, spec) THEN [i EXCEPT !.err = "ValueError"]
        ELSE [i EXCEPT
                !.signals = {x \in all : x.name \in Names(i.signals) \cup new},
                !.handles = @ \cup got,
                !.filtered = @ \cup (got \cap i.filters),
                !.err = IF missing = {} THEN None ELSE "ProtocolError:Required"]


\* ------------------------------------------------------------------------
\* Construction
\* ------------------------------------------------------------------------
\* The wires before the first clock edge
Idle ==
    [reset |-> FALSE, ready |-> FALSE, valid |-> FALSE, data |-> 0,
     channel |-> "0", startofpacket |-> FALSE, endofpacket |-> FALSE]

\* BaseModel.__init__ and the __init__ of the streaming models, for both
\* models, and the callers before their calls
Built ==
    /\ wire = Idle
    /\ count = [m \in Models |-> [ALLOWANCE |-> NoCount, LATENCY |-> NoCount]]
    /\ cache = None
    /\ pulls = 0
    /\ state = [m \in Models |-> TOP_NULL]
    /\ busy = [m \in Models |-> FALSE]
    /\ busy_event = [m \in Models |-> FALSE]
    /\ buff = [m \in Models |-> [data |-> <<>>]]
    /\ in_pkt = [m \in Models |-> InPktReset(bound)]
    /\ prev_channel = None
    /\ pc = [p \in Callers |-> "idle"]
    /\ op = [p \in Callers |-> None]
    /\ tgt = [p \in Callers |-> None]
    /\ txn = [p \in Callers |-> NoTxn]
    /\ pend = [p \in Callers |-> <<>>]
    /\ err = [p \in Callers |-> None]
    /\ out = [p \in Callers |-> NoTxn]
    /\ ran = [p \in Callers |-> <<>>]
    /\ order = <<>>
    /\ calledBusy = [p \in Callers |-> FALSE]
    /\ log = <<>>

\* The models built, with no signal of its own and no interface under
\* assembly beside them
Constructed ==
    /\ sig = NoSignal
    /\ itf = NoInterface
    /\ Built

\* A source and a sink built on one entity, no interface property given
Init ==
    /\ bound \in Entities
    /\ props = DefaultProps
    /\ Constructed

\* ------------------------------------------------------------------------
\* Calls.  A coroutine that is awaited starts running at once, so nothing
\* else runs between a call and the first statements of acquire.
\* ------------------------------------------------------------------------
Starting == \E q \in Callers : pc[q] = "acquire"

Called(p, o, m, t) ==
    /\ op' = [op EXCEPT ![p] = o]
    /\ tgt' = [tgt EXCEPT ![p] = m]
    /\ txn' = [txn EXCEPT ![p] = t]
    /\ order' = Append(order, p)
    /\ calledBusy' = [calledBusy EXCEPT ![p] = busy[m]]

\* BaseModel.input, up to the await of acquire
input(p, m, t) ==
    /\ pc[p] = "idle" /\ ~Starting
    /\ Called(p, "input", m, t)
    /\ IF ShapeMismatch(t, m, bound)
       THEN /\ pc' = [pc EXCEPT ![p] = "raised"]
            /\ err' = [err EXCEPT ![p] = "ValueError"]
       ELSE /\ pc' = [pc EXCEPT ![p] = "acquire"]
            /\ err' = err
    /\ UNCHANGED <<sig, itf, bound, props, modelVars, pend, out, ran>>

\* BaseModel.output, up to the await of acquire
output(p, m) ==
    /\ pc[p] = "idle" /\ ~Starting
    /\ Called(p, "output", m, NoTxn)
    /\ pc' = [pc EXCEPT ![p] = "acquire"]
    /\ UNCHANGED <<sig, itf, bound, props, modelVars, pend, err, out, ran>>

\* BaseSynchronousModel.rx, up to its first await: busy is set without acquire
rx(p, m) ==
    /\ pc[p] = "idle" /\ ~Starting
    /\ Called(p, "rx", m, NoTxn)
    /\ busy' = [busy EXCEPT ![m] = TRUE]
    /\ pc' = [pc EXCEPT ![p] = "rx_re"]
    /\ UNCHANGED <<sig, itf, bound, props, hsmVars, wire, state, busy_event, buff, in_pkt, prev_channel,
                   log, pend, err, out, ran>>

\* acquire without the wait on busy_event
acquireNoWait(p) ==
    LET m == tgt[p]
    IN  /\ pc[p] = "acquire"
        /\ busy_event' = [busy_event EXCEPT ![m] = FALSE]
        /\ busy' = [busy EXCEPT ![m] = TRUE]
        /\ pc' = [pc EXCEPT ![p] = "acquired"]
        /\ UNCHANGED <<sig, itf, bound, props, hsmVars, wire, state, buff, in_pkt, prev_channel, log,
                       op, tgt, txn, pend, err, out, ran, order, calledBusy>>

\* BaseModel.acquire: run from its start, or resumed from busy_event.wait()
\* once the event is set
acquire(p) ==
    LET m == tgt[p]
    IN  /\ \/ pc[p] = "acquire"
           \/ pc[p] = "wait" /\ busy_event[m]
        /\ IF pc[p] = "acquire" /\ busy[m] /\ ~busy_event[m]
           THEN /\ pc' = [pc EXCEPT ![p] = "wait"]
                /\ UNCHANGED <<busy, busy_event>>
           ELSE /\ busy_event' = [busy_event EXCEPT ![m] = FALSE]
                /\ busy' = [busy EXCEPT ![m] = TRUE]
                /\ pc' = [pc EXCEPT ![p] = "acquired"]
        /\ UNCHANGED <<sig, itf, bound, props, hsmVars, wire, state, buff, in_pkt, prev_channel, log,
                       op, tgt, txn, pend, err, out, ran, order, calledBusy>>

\* BaseModel.release (no caller in the package)
release(m) ==
    [busy |-> [busy EXCEPT ![m] = FALSE],
     busy_event |-> [busy_event EXCEPT ![m] = TRUE]]

\* "while self.busy:" of input and output with what follows the loop: either
\* the caller awaits trig, or the buffer is flushed and the call returns
WhileBusy(p, m, b) ==
    IF busy[m]
    THEN /\ pc' = [pc EXCEPT ![p] = "trig"]
         /\ buff' = [buff EXCEPT ![m] = b]
         /\ out' = out
    ELSE /\ pc' = [pc EXCEPT ![p] = "done"]
         /\ buff' = [buff EXCEPT ![m] = _flush(b, keys(m, bound)).buff]
         /\ out' = [out EXCEPT ![p] = IF op[p] = "output"
                                      THEN _flush(b, keys(m, bound)).out ELSE @]

\* input and output resumed after acquire: _load (input only), then the loop
resume(p) ==
    LET m == tgt[p]
    IN  /\ pc[p] = "acquired" /\ ~Starting
        /\ WhileBusy(p, m, IF op[p] = "input" THEN _load(buff[m], txn[p]) ELSE buff[m])
        /\ UNCHANGED <<sig, itf, bound, props, hsmVars, wire, state, busy, busy_event, in_pkt, prev_channel,
                       log, op, tgt, txn, pend, err, ran, order, calledBusy>>

\* ------------------------------------------------------------------------
\* The clock and the event loop
\* ------------------------------------------------------------------------
Quiescent == {"idle", "wait", "trig", "rx_re", "done", "raised", "killed"}

\* One rising edge of the clock: trig fires for every caller awaiting it.  The
\* surroundings drive reset, and ready when the entity has it and the sink
\* does not generate it.
clock ==
    /\ \A p \in Callers : pc[p] \in Quiescent
    /\ \E p \in Callers : pc[p] \in {"trig", "rx_re"}
    /\ \E r \in BOOLEAN, rd \in (IF "ready" \in bound /\ ~props.generated
                                  THEN BOOLEAN ELSE {wire.ready}) :
          wire' = [wire EXCEPT !.reset = r, !.ready = rd]
    /\ pc' = [p \in Callers |->
                 IF pc[p] = "trig" THEN "ro"
                 ELSE IF pc[p] = "rx_re" THEN "rx_ro" ELSE pc[p]]
    /\ UNCHANGED <<sig, itf, bound, props, hsmVars, state, busy, busy_event, buff, in_pkt, prev_channel, log,
                   op, tgt, txn, pend, err, out, ran, order, calledBusy>>

ModelState(m, w) ==
    [wire |-> w, busy |-> busy[m], buff |-> buff[m], in_pkt |-> in_pkt[m],
     prev_channel |-> prev_channel, log |-> log, err |-> None]

\* What an advance of model m works on
Env(m) ==
    [wire |-> wire, count |-> count[m], cache |-> cache, pulls |-> pulls,
     gen |-> (props.generated /\ m = "snk")]

\* What the event loop of caller p leaves behind when it stops at r
Looped(p, m, r) ==
    /\ wire' = r.ms.wire
    /\ busy' = [busy EXCEPT ![m] = r.ms.busy]
    /\ buff' = [buff EXCEPT ![m] = r.ms.buff]
    /\ in_pkt' = [in_pkt EXCEPT ![m] = r.ms.in_pkt]
    /\ prev_channel' = r.ms.prev_channel
    /\ log' = r.ms.log
    /\ ran' = [ran EXCEPT ![p] = r.ran]
    /\ IF r.ms.err # None
       THEN /\ pc' = [pc EXCEPT ![p] = "raised"]
            /\ err' = [err EXCEPT ![p] = r.ms.err]
            /\ pend' = [pend EXCEPT ![p] = <<>>]
       ELSE /\ pc' = [pc EXCEPT ![p] = IF r.rest = <<>> THEN "ret" ELSE "nts"]
            /\ err' = err
            /\ pend' = [pend EXCEPT ![p] = r.rest]

\* BaseModel._event_loop from ReadOnly on: advance, the context check, and the
\* reactions of the state reached up to the first await
_event_loop(p) ==
    LET m == tgt[p]
        root == machine(m, bound, props)
    IN  /\ pc[p] = "ro" /\ ~Starting
        /\ \E a \in {advance(root, state[m], Env(m))} :
             /\ state' = [state EXCEPT ![m] = a.state]
             /\ count' = [count EXCEPT ![m] = a.e.count]
             /\ cache' = a.e.cache
             /\ pulls' = a.e.pulls
             /\ IF ContextViolated(a.state)
                THEN /\ pc' = [pc EXCEPT ![p] = "raised"]
                     /\ err' = [err EXCEPT ![p] = "ProtocolError:Context"]
                     /\ ran' = [ran EXCEPT ![p] = <<>>]
                     /\ pend' = [pend EXCEPT ![p] = <<>>]
                     /\ wire' = a.e.wire
                     /\ UNCHANGED <<busy, buff, in_pkt, prev_channel, log>>
                ELSE \E r \in {RunReactions(m,
                            [ms |-> ModelState(m, a.e.wire),
                             rest |-> get_state(root, a.state).reactions,
                             ran |-> <<>>], FALSE, bound)} : Looped(p, m, r)
        /\ UNCHANGED <<sig, itf, bound, props, busy_event, op, tgt, txn, out, order, calledBusy>>

\* The event loop resumed after "await NextTimeStep(); await fn.smode()": the
\* read-only phase of the edge is over
NextTimeStep(p) ==
    LET m == tgt[p]
    IN  /\ pc[p] = "nts" /\ ~Starting
        /\ \A q \in Callers : pc[q] \notin {"ro", "rx_ro"}
        /\ \E r \in {RunReactions(m,
                      [ms |-> ModelState(m, wire), rest |-> pend[p], ran |-> ran[p]],
                      TRUE, bound)} : Looped(p, m, r)
        /\ UNCHANGED <<sig, itf, bound, props, hsmVars, state, busy_event, op, tgt, txn, out, order, calledBusy>>

\* input and output resumed after the event loop returned
loop(p) ==
    /\ pc[p] = "ret" /\ ~Starting
    /\ WhileBusy(p, tgt[p], buff[tgt[p]])
    /\ UNCHANGED <<sig, itf, bound, props, hsmVars, wire, state, busy, busy_event, in_pkt, prev_channel,
                   log, op, tgt, txn, pend, err, ran, order, calledBusy>>

\* rx after "await self.re; await self.ro": self._event_loop() only makes a
\* coroutine object, then busy is tested; past the loop self._output does not
\* exist
rx_loop(p) ==
    /\ pc[p] = "rx_ro" /\ ~Starting
    /\ IF busy[tgt[p]]
       THEN /\ pc' = [pc EXCEPT ![p] = "rx_re"]
            /\ err' = err
       ELSE /\ pc' = [pc EXCEPT ![p] = "raised"]
            /\ err' = [err EXCEPT ![p] = "AttributeError"]
    /\ UNCHANGED <<sig, itf, bound, props, modelVars, op, tgt, txn, pend, out, ran, order, calledBusy>>

Next ==
    \/ \E p \in Callers, m \in Models, t \in Txns : input(p, m, t)
    \/ \E p \in Callers, m \in Models : output(p, m)
    \/ \E p \in Callers, m \in Models : rx(p, m)
    \/ \E p \in Callers : acquire(p)
    \/ \E p \in Callers : resume(p)
    \/ clock
    \/ \E p \in Callers : _event_loop(p)
    \/ \E p \in Callers : NextTimeStep(p)
    \/ \E p \in Callers : loop(p)
    \/ \E p \in Callers : rx_loop(p)

Spec == Init /\ [][Next]_vars

\* ------------------------------------------------------------------------
\* A sink alone, monitoring a bus that a device drives (the test binds the
\* source and the sink to different buses of the device under test)
\* ------------------------------------------------------------------------
InitMonitor ==
    /\ bound \in MonitorEntities
    /\ props = DefaultProps
    /\ Constructed

Driven(name, vals) == IF name \in bound THEN vals ELSE {wire[name]}

\* One rising edge of the clock on the monitored bus: trig fires for every
\* caller awaiting it, and the device has driven every wire the entity has
edge ==
    /\ \A p \in Callers : pc[p] \in Quiescent
    /\ \E p \in Callers : pc[p] = "trig"
    /\ \E r \in BOOLEAN, v \in BOOLEAN,
          s \in Driven("startofpacket", BOOLEAN), e \in Driven("endofpacket", BOOLEAN),
          ch \in Driven("channel", Channels), d \in Driven("data", Words) :
          wire' = [wire EXCEPT !.reset = r, !.valid = v, !.startofpacket = s,
                               !.endofpacket = e, !.channel = ch, !.data = d]
    /\ pc' = [p \in Callers |-> IF pc[p] = "trig" THEN "ro" ELSE pc[p]]
    /\ UNCHANGED <<sig, itf, bound, props, hsmVars, state, busy, busy_event, buff, in_pkt, prev_channel, log,
                   op, tgt, txn, pend, err, out, ran, order, calledBusy>>

NextMonitor ==
    \/ \E p \in Callers : output(p, "snk")
    \/ \E p \in Callers : acquire(p)
    \/ \E p \in Callers : resume(p)
    \/ edge
    \/ \E p \in Callers : _event_loop(p)
    \/ \E p \in Callers : loop(p)

SpecMonitor == InitMonitor /\ [][NextMonitor]_vars

\* ------------------------------------------------------------------------
\* A source and a sink on an entity with ready, the interface built with
\* readyAllowance and readyLatency and/or a generator on the sink's ready
\* ------------------------------------------------------------------------
InitDelay ==
    /\ bound \in ReadyEntities
    /\ props \in DelayProps
    /\ Constructed

NextDelay ==
    \/ \E p \in Callers, t \in Txns : input(p, "src", t)
    \/ \E p \in Callers : output(p, "snk")
    \/ \E p \in Callers : acquire(p)
    \/ \E p \in Callers : resume(p)
    \/ clock
    \/ \E p \in Callers : _event_loop(p)
    \/ \E p \in Callers : NextTimeStep(p)
    \/ \E p \in Callers : loop(p)

SpecDelay == InitDelay /\ [][NextDelay]_vars

\* ------------------------------------------------------------------------
\* A source whose user calls release: the calls that wait in acquire go on,
\* and a call can leave its loop while words are in the buffer
\* ------------------------------------------------------------------------
InitRelease ==
    /\ bound = Base
    /\ props = DefaultProps
    /\ Constructed

\* A call of BaseModel.release on a busy model
call_release(m) ==
    /\ ~Starting /\ busy[m]
    /\ busy' = release(m).busy
    /\ busy_event' = release(m).busy_event
    /\ UNCHANGED <<sig, itf, bound, props, hsmVars, wire, state, buff, in_pkt, prev_channel, log,
                   pc, op, tgt, txn, pend, err, out, ran, order, calledBusy>>

NextRelease ==
    \/ \E p \in Callers, t \in Txns : input(p, "src", t)
    \/ \E p \in Callers : output(p, "src")
    \/ \E p \in Callers : acquire(p)
    \/ \E p \in Callers : resume(p)
    \/ call_release("src")
    \/ clock
    \/ \E p \in Callers : _event_loop(p)
    \/ \E p \in Callers : NextTimeStep(p)
    \/ \E p \in Callers : loop(p)

SpecRelease == InitRelease /\ [][NextRelease]_vars

\* ------------------------------------------------------------------------
\* A source whose calls the scheduler may kill while they are suspended
\* ------------------------------------------------------------------------
InitCancel ==
    /\ bound = Base
    /\ props = DefaultProps
    /\ Constructed

\* The awaits at which a call of input or output is suspended: busy_event.wait()
\* in acquire, trig, and NextTimeStep inside the event loop
Awaiting == {"wait", "trig", "nts"}

\* The scheduler kills the coroutine of caller p at its await.  input and
\* output have neither try/finally nor an except around their awaits, so
\* closing the coroutine runs no statement of the model.
cancel(p) ==
    /\ pc[p] \in Awaiting /\ ~Starting
    /\ pc' = [pc EXCEPT ![p] = "killed"]
    /\ pend' = [pend EXCEPT ![p] = <<>>]
    /\ UNCHANGED <<sig, itf, bound, props, modelVars, op, tgt, txn, err, out, ran, order, calledBusy>>

NextCancel ==
    \/ \E p \in Callers, t \in Txns : input(p, "src", t)
    \/ \E p \in Callers : output(p, "src")
    \/ \E p \in Callers : acquire(p)
    \/ \E p \in Callers : resume(p)
    \/ \E p \in Callers : cancel(p)
    \/ clock
    \/ \E p \in Callers : _event_loop(p)
    \/ \E p \in Callers : NextTimeStep(p)
    \/ \E p \in Callers : loop(p)

SpecCancel == InitCancel /\ [][NextCancel]_vars

\* ------------------------------------------------------------------------
\* A signal of its own, driven and captured by its user while the simulator
\* changes the value on its handle
\* ------------------------------------------------------------------------
InitSignal ==
    /\ sig \in SignalObjects
    /\ itf = NoInterface
    /\ bound = Base
    /\ props = DefaultProps
    /\ Built

unitVars == <<bound, props, modelVars, pc, op, tgt, txn, pend, err, out, ran,
              order, calledBusy>>

\* s.drive(v): Control.drive for a control, Signal.drive else
call_drive(v) ==
    /\ v \in Values(IF instantiated(sig) THEN sig.bits ELSE 1)
    /\ sig' = IF sig.ctrl THEN Control_drive(Fresh(sig, "drive", v), v)
              ELSE Signal_drive(Fresh(sig, "drive", v), v)
    /\ UNCHANGED <<itf, unitVars>>

\* s.capture(): Control.capture for a control, Signal.capture else
call_capture ==
    /\ sig' = IF sig.ctrl THEN Control_cached(Fresh(sig, "capture", PyNone))
              ELSE Signal_capture(Fresh(sig, "capture", PyNone))
    /\ UNCHANGED <<itf, unitVars>>

\* The simulator puts a value on the wire of the handle
deposit(n) ==
    /\ instantiated(sig) /\ n # sig.value
    /\ n = Unresolvable \/ n < Pow2(sig.bits)
    /\ sig' = [Fresh(sig, "deposit", PyNone) EXCEPT !.value = n]
    /\ UNCHANGED <<itf, unitVars>>

NextSignal ==
    \/ \E v \in Values(MaxWidth) : call_drive(v)
    \/ call_capture
    \/ \E n \in {Unresolvable} \cup 0..(Pow2(MaxWidth) - 1) : deposit(n)

SpecSignal == InitSignal /\ [][NextSignal]_vars

\* ------------------------------------------------------------------------
\* An interface assembled by calls of _specify, and asked for the names of
\* its transactions
\* ------------------------------------------------------------------------
InitInterface ==
    /\ itf \in {NewInterface(e, f) : e \in Attributes, f \in {{}, {"data"}}}
    /\ sig = NoSignal
    /\ bound = Base
    /\ props = DefaultProps
    /\ Built

\* The interface before a call: nothing returned, nothing raised
Calling(o, a) == [itf EXCEPT !.op = o, !.arg = a, !.err = None, !.ret = {}]

\* self._specify(spec, precedes) with the specification number k
specify(k, precedes) ==
    /\ \E added \in IF \A x \in Specifications[k] :
                             x.required => x.name \in itf.entity
                       THEN {{}}
                       ELSE SUBSET {x \in Specifications[k] : ~x.required} :
          itf' = BaseInterface_specify(Calling("specify", Args(k, precedes, None)),
                                       Specifications[k], precedes, added)
    /\ UNCHANGED <<sig, unitVars>>

\* self._txn(primary)
call_txn(prim) ==
    /\ itf' = [Calling("txn", Args(0, FALSE, prim)) EXCEPT
                  !.ret = BaseInterface_txn(itf.signals, itf.handles, prim)]
    /\ UNCHANGED <<sig, unitVars>>

NextInterface ==
    \/ \E k \in DOMAIN Specifications, precedes \in BOOLEAN : specify(k, precedes)
    \/ \E prim \in {"True", "False", None} : call_txn(prim)

SpecInterface == InitInterface /\ [][NextInterface]_vars

\* ------------------------------------------------------------------------
\* A model without reactions on an interface with the level specification
\* put under reset, ticked by its event loop
\* ------------------------------------------------------------------------
LevelAttributes ==
    { {"clk", "reset", "hold", "stop"}, {"clk", "reset", "reset_req", "hold", "stop"},
      {"clk", "reset", "hold"}, {"clk", "reset", "stop"} }

InitLevel ==
    /\ itf \in {NewInterface(e, {}) : e \in LevelAttributes}
    /\ sig = NoSignal
    /\ bound = Base
    /\ props = DefaultProps
    /\ Built

\* BaseModel.__init__ on the interface: the machine is elaborated from the
\* controls view and starts in TOP/NULL
build ==
    /\ ~itf.built
    /\ itf' = [Calling("build", Args(0, FALSE, None)) EXCEPT
                  !.built = TRUE,
                  !.machine = BaseModel_elaborate(controls(itf.signals), itf.handles, {}),
                  !.state = TOP_NULL]
    /\ UNCHANGED <<sig, unitVars>>

\* What the advance of the model works on when the controls sample w
LevelEnv(w) ==
    [wire |-> w, count |-> [ALLOWANCE |-> NoCount, LATENCY |-> NoCount],
     cache |-> None, pulls |-> 0, gen |-> FALSE]

\* BaseModel._event_loop of the model: the wires of the entity carry w,
\* advance is triggered and the context is checked
tick(w) ==
    /\ itf.built
    /\ \A c \in LevelWires \ itf.entity : w[c] = itf.wire[c]
    /\ \E a \in {advance(itf.machine, itf.state, LevelEnv(w))} :
          itf' = [Calling("tick", Args(0, FALSE, None)) EXCEPT
                    !.wire = w,
                    !.state = a.state,
                    !.err = IF ContextViolated(a.state)
                            THEN "ProtocolError:Context" ELSE None]
    /\ UNCHANGED <<sig, unitVars>>

\* The specifications of the interface: its own and that of the reset
LevelPool ==
    {k \in DOMAIN Specifications :
        Specifications[k] \in {ResetSpecification, LevelSpecification}}

NextLevel ==
    \/ \E k \in LevelPool, precedes \in BOOLEAN : specify(k, precedes)
    \/ build
    \/ \E w \in [LevelWires -> BOOLEAN] : tick(w)

SpecLevel == InitLevel /\ [][NextLevel]_vars

\* ------------------------------------------------------------------------
\* A sink on an entity without valid
\* ------------------------------------------------------------------------
InitForced ==
    /\ bound \in ForcedEntities
    /\ props = DefaultProps
    /\ Constructed

NextForced ==
    \/ \E p \in Callers : output(p, "snk")
    \/ \E p \in Callers : acquire(p)
    \/ \E p \in Callers : resume(p)
    \/ clock
    \/ \E p \in Callers : _event_loop(p)
    \/ \E p \in Callers : loop(p)

SpecForced == InitForced /\ [][NextForced]_vars

\* ------------------------------------------------------------------------
\* Properties
\* ------------------------------------------------------------------------
IO == {"input", "output"}

\* p made its call before q did
Before(p, q) ==
    \E i, j \in DOMAIN order : i < j /\ order[i] = p /\ order[j] = q

\* p holds the model: it has passed acquire and has not left its while loop
Holding(p) == op[p] \in IO /\ pc[p] \in {"acquired", "trig", "ro", "nts"}

\* C1 (busy mutual exclusion): on one model no two input/output calls are at
\* the same time between their acquire and the exit of their event loop.
C1_BusyMutualExclusion ==
    \A p, q \in Callers :
        (p # q /\ Holding(p) /\ Holding(q)) => tgt[p] # tgt[q]

\* C2 (ordering): when input(T1) was called before input(T2) on the same
\* model, T2 has its buffer loaded or its event loop running only after T1 has
\* stopped looping.
C2_CallOrder ==
    \A p, q \in Callers :
        (/\ op[p] = "input" /\ op[q] = "input" /\ tgt[p] = tgt[q]
         /\ Before(p, q)
         /\ pc[q] \in {"trig", "ro", "nts", "ret", "done"})
        => pc[p] \notin {"acquired", "trig", "ro", "nts"}

\* C3 (progress of waiting callers): once the transaction in progress has
\* cleared busy, the busy event is signalled for the callers waiting in
\* acquire, so none of them is left waiting behind a finished transaction.
C3_WaiterSignalled ==
    \A p \in Callers :
        (pc[p] = "wait" /\ ~busy[tgt[p]]) => busy_event[tgt[p]]

\* C4 as claimed (reject when busy): an input or output call made while the
\* model is busy is rejected, i.e. it ends with an exception.
C4_RejectedWhenBusy ==
    \A p \in Callers :
        (op[p] \in IO /\ calledBusy[p]) => pc[p] \in {"acquire", "raised"}

\* C4 as amended (suspend when busy): an input or output call that reaches
\* acquire while the model is busy and the busy event is not set is suspended
\* in acquire; suspending it changes neither the buffers nor busy nor the
\* machine nor the wires, and as long as the event stays unset the suspended
\* call goes no further (no load, no event loop).
C4_SuspendedWhenBusy ==
    [][\A p \in Callers :
          /\ (pc[p] = "acquire" /\ busy[tgt[p]] /\ ~busy_event[tgt[p]])
             => /\ pc'[p] = "wait"
                /\ UNCHANGED <<buff, busy, busy_event, state, wire, in_pkt, log>>
          /\ (pc[p] = "wait" /\ ~busy_event[tgt[p]]) => pc'[p] = "wait"]_vars

C4_Witness ==
    \E p, q \in Callers :
        /\ p # q /\ tgt[p] = tgt[q]
        /\ op[p] \in IO /\ calledBusy[p] /\ pc[p] = "wait"
        /\ pc[q] \in {"trig", "ro", "nts"}

\* C5 (shape check): an input whose transaction's key set differs from
\* itf._txn(primary) of the model ends with ValueError in the step of the call,
\* and that step changes neither busy nor the busy event nor any buffer nor
\* the state of the machine.
C5_ShapeMismatchRaises ==
    [][\A p \in Callers :
          (/\ pc[p] = "idle" /\ pc'[p] # "idle" /\ op'[p] = "input"
           /\ txn'[p].keys # _txn(primary(tgt'[p]), bound))
          => /\ pc'[p] = "raised" /\ err'[p] = "ValueError"
             /\ UNCHANGED <<busy, busy_event, buff, state, in_pkt, prev_channel,
                            wire, log>>]_vars

C5_Witness ==
    \E p, q \in Callers :
        /\ pc[p] = "raised" /\ err[p] = "ValueError" /\ tgt[p] = "src"
        /\ tgt[q] = "src" /\ pc[q] = "nts" /\ busy["src"] /\ buff["src"].data # <<>>

\* C6 (context invariant): on ticks where every control has a resolvable value
\* of its flow_vals or fix_vals (all ticks here: the wires carry booleans and no
\* control is delayed) the event loop never raises the protocol error of the
\* context check.
C6_ContextInvariant ==
    \A p \in Callers : ~(pc[p] = "raised" /\ err[p] = "ProtocolError:Context")

C8_RoundTrip ==
    \A p, q \in Callers :
        (/\ op[p] = "input" /\ tgt[p] = "src" /\ txn[p].data # <<>>
         /\ op[q] = "output" /\ tgt[q] = "snk"
         /\ pc[p] = "done")
        => /\ pc[q] # "raised"
           /\ pc[q] = "done" => (out[q].keys = {"data"} /\ out[q].data = txn[p].data)

\* C9 (source drain): for the only call input(S) on the source, S of N >= 1
\* words, valid_cycle drives the words of S in order, each once and each with
\* valid asserted, and when input has returned all N were driven, valid and
\* busy are cleared and the buffer is empty.
C9_SourceDrain ==
    \A p \in Callers :
        (order = <<p>> /\ op[p] = "input" /\ tgt[p] = "src" /\ txn[p].data # <<>>)
        => /\ Len(log) <= Len(txn[p].data)
           /\ \A i \in DOMAIN log : log[i].data = txn[p].data[i] /\ log[i].valid
           /\ pc[p] = "done" =>
                 /\ Len(log) = Len(txn[p].data)
                 /\ ~wire.valid /\ ~busy["src"] /\ buff["src"].data = <<>>

\* C10 (packet framing): for the only call input(S) on the source of an
\* interface with startofpacket and endofpacket, S of N >= 1 words, word i is
\* driven with startofpacket asserted exactly if it is word 0 and with
\* endofpacket asserted exactly if it is word N-1.
C10_PacketFraming ==
    \A p \in Callers :
        (/\ order = <<p>> /\ op[p] = "input" /\ tgt[p] = "src"
         /\ packets(bound) /\ txn[p].data # <<>>)
        => \A i \in DOMAIN log :
              /\ log[i].startofpacket = (i = 1)
              /\ log[i].endofpacket = (i = Len(txn[p].data))

\* The event loop of p's output call on the sink runs for one tick
SinkTick(p) ==
    pc[p] = "ro" /\ pc'[p] # "ro" /\ tgt[p] = "snk" /\ op[p] = "output"

SameChannel ==
    ("channel" \in bound /\ prev_channel # None) => wire.channel = prev_channel

\* The word on the wires obeys the packet rules the sink checks: it opens a
\* packet exactly if none is open, and it keeps the channel of the packet
WellFramed ==
    /\ packets(bound) =>
          (wire.startofpacket <=> in_pkt["snk"] # "True")
    /\ SameChannel

\* C11 (sink completion): on a tick of the sink's output call that passes the
\* context check, with reset low and a well-framed word, the sink raises
\* nothing, appends the data word to its buffer exactly if valid is asserted,
\* and clears busy exactly if a word is captured with endofpacket asserted
\* or, without packet framing, if a word is captured.
C11_SinkCompletion ==
    [][\A p \in Callers :
          (/\ SinkTick(p) /\ "data" \in bound
           /\ ~wire.reset /\ WellFramed
           /\ state'["snk"] # TOP_NULL)
          => /\ pc'[p] # "raised"
             /\ buff'["snk"].data =
                    IF wire.valid THEN Append(buff["snk"].data, wire.data)
                    ELSE buff["snk"].data
             /\ busy'["snk"] =
                    ~(wire.valid /\ (~packets(bound) \/ wire.endofpacket))]_vars

\* The tick of p's output call on which the sink's valid_cycle runs: a valid
\* word is captured
Captured(p) == SinkTick(p) /\ "valid_cycle" \in Range(ran'[p])

Raised(p, e) == pc'[p] = "raised" /\ err'[p] = e

Tick(p) == pc[p] = "ro" /\ pc'[p] # "ro"

\* The path s goes through the value state v of level l of control c
At(s, c, l, v) ==
    \E i \in 1..(Len(s) - 2) : s[i] = c /\ s[i + 1] = l /\ s[i + 2] = v

\* ready is in its flow value True: in the base state, or in the wait state
\* ALLOWANCE below it
InBase(s) == At(s, "READY", "FLW", "TRUE") /\ "ALLOWANCE" \notin Range(s)
InWait(s) == At(s, "READY", "FLW", "TRUE") /\ "ALLOWANCE" \in Range(s)

\* A tick of a model whose ready is sampled from the wire, with allowance
\* A > 0 and reset low
DelayTick(p) ==
    /\ Tick(p) /\ props.ready_allowance > 0 /\ ~props.generated
    /\ ~wire.reset

\* C14 (delay within bound): with allowance A > 0, a tick on which ready has
\* left its flow value True raises no protocol error and has the machine in
\* the ALLOWANCE wait state, when it comes from the base state of True or
\* from the wait state with fewer than A ticks counted; a tick on which ready
\* is True again takes the machine from the wait state back to the base state.
C14_DelayWithinBound ==
    [][\A p \in Callers :
          DelayTick(p) =>
             LET m == tgt[p]
                 waited == count[m].ALLOWANCE
             IN  /\ (~wire.ready /\ (InBase(state[m]) \/
                                     (InWait(state[m]) /\ waited < props.ready_allowance)))
                       => /\ ~Raised(p, "ProtocolError:Context")
                          /\ InWait(state'[m])
                 /\ (wire.ready /\ InWait(state[m]))
                       => /\ ~Raised(p, "ProtocolError:Context")
                          /\ InBase(state'[m])]_vars

GeneratedTick(p) ==
    /\ Tick(p) /\ tgt[p] = "snk" /\ props.generated
    /\ ~Raised(p, "ProtocolError:Context")

\* The state the machine of model m is in after the step
Reached(m) == get_state(machine(m, bound, props), state'[m])

\* C17 (influence invalidation): a tick of the event loop that reaches a leaf
\* which names the generated control among its influences leaves the cache of
\* that control empty, so that the next tick pulls a new value.
C17_InfluenceInvalidation ==
    [][\A p \in Callers :
          (GeneratedTick(p) /\ "ready" \in Range(Reached("snk").influences))
          => cache' = None]_vars

\* C18 (generator determinism): after the machine has entered a state that
\* names the generated control among its influences, the next tick that
\* captures the control (any tick with reset low: the guards below reset
\* sample ready) pulls exactly one new value from the generator, and that
\* value is the one on the wire and in the cache, so that the wire carries
\* the generator's sequence value by value.
C18_GeneratorDeterminism ==
    [][\A p \in Callers :
          (/\ GeneratedTick(p) /\ ~wire.reset
           /\ "ready" \in Range(get_state(machine("snk", bound, props),
                                          state["snk"]).influences))
          => /\ pulls' = pulls + 1
             /\ wire'.ready = Generator(pulls + 1)
             /\ cache' = Bool3(Generator(pulls + 1))]_vars

\* p's call returns in this step
Returns(p) == pc[p] # "done" /\ pc'[p] = "done"

\* C19 (buffer empty when idle): the buffer of a model is empty after every
\* step that takes the model from busy to idle and after every step in which
\* an input or output call on it returns, and the buffers are empty as long
\* as no call has been made.
C19_BufferEmptyWhenIdle ==
    [][/\ \A m \in Models :
             (busy[m] /\ ~busy'[m]) => buff'[m].data = <<>>
       /\ \A p \in Callers :
             Returns(p) => buff'[tgt[p]].data = <<>>
       /\ order = <<>> => \A m \in Models : buff[m].data = <<>>]_vars

\* An input of MaxLen words has returned, the model is idle and its buffer
\* is empty
C19_Witness ==
    \E p \in Callers :
        /\ pc[p] = "done" /\ op[p] = "input" /\ tgt[p] = "src"
        /\ Len(txn[p].data) = MaxLen /\ Len(log) >= MaxLen
        /\ ~busy["src"] /\ buff["src"].data = <<>>

\* C20 (idempotent flush): an output call that returns hands back the
\* contents of the buffer as they are at that moment, in the order of the
\* buffer and under the buffer's keys, and leaves the buffer empty, so that a
\* second output with no load or capture in between returns empty lists; an
\* output that is the first call on the models returns empty lists.
C20_IdempotentFlush ==
    [][\A p \in Callers :
          (Returns(p) /\ op[p] = "output") =>
             LET m == tgt[p]
             IN  /\ out'[p] = [keys |-> keys(m, bound), data |-> buff[m].data]
                 /\ buff'[m].data = <<>>
                 /\ order = <<p>> => out'[p].data = <<>>]_vars

\* An output has returned MaxLen words in the order of the buffer, which the
\* input of another caller had loaded, and has left the buffer empty
C20_Witness ==
    \E p, q \in Callers :
        /\ pc[p] = "done" /\ op[p] = "output" /\ tgt[p] = "src"
        /\ op[q] = "input" /\ tgt[q] = "src"
        /\ Len(out[p].data) = MaxLen /\ out[p].data = Reverse(txn[q].data)
        /\ out[p].data[1] # out[p].data[2]
        /\ buff["src"].data = <<>>

\* The call of p is killed in this step while it holds the model: it awaited a
\* tick, or NextTimeStep inside the event loop
Cancelled(p) == pc[p] \in {"trig", "nts"} /\ pc'[p] = "killed"

\* C21 (cancellation): when an input or output call is killed while it awaits
\* a tick or the event loop, the busy flag of its model is released (busy is
\* false and the busy event is set), the buffer is left as it was, and what
\* was driven on the wires stays.
C21_Cancellation ==
    [][\A p \in Callers :
          Cancelled(p) =>
             /\ ~busy'[tgt[p]] /\ busy_event'[tgt[p]]
             /\ buff' = buff
             /\ wire' = wire /\ log' = log]_vars

\* The complement of n within the bits of the handle
Complement(n, bits) == Pow2(bits) - 1 - n

\* The conversion of a value to the logical type of the signal
Converted(v, type) ==
    CASE type = "bool" -> PyBool(v.n # 0)
      [] type = "int" -> Py("int", v.n)
      [] OTHER -> Py("BinaryValue", v.n)

\* A call of drive that returned has just been made on the signal
Drove == sig' # sig /\ sig'.op = "drive" /\ sig'.err = None

\* capture is called on the signal in this step
Capturing == sig' # sig /\ sig'.op = "capture"

\* C22 (polarity involution): on an active-low signal bound to a handle of w
\* bits, drive(v) with 0 <= v < 2^w writes the complement of v within w
\* bits, a capture that follows the drive returns v (converted to the logical
\* type), and with one bit a capture of physical 0 from the wire returns
\* logical true.
C22_PolarityInvolution ==
    [][(~sig.logic_active_high /\ instantiated(sig)) =>
          /\ Drove => sig'.value = Complement(sig'.arg.n, sig.bits)
          /\ (sig.op = "drive" /\ sig.err = None /\ Capturing)
                => /\ sig'.err = None
                   /\ sig'.ret = Converted(sig.arg, sig.logical_type)
          /\ (Capturing /\ ~sig.generated /\ sig.bits = 1 /\ sig.value = 0)
                => sig'.ret.n = 1]_vars

\* C22 on handles of one bit
C22_OneBit ==
    [][(~sig.logic_active_high /\ sig.bits = 1) =>
          /\ Drove => sig'.value = Complement(sig'.arg.n, sig.bits)
          /\ (sig.op = "drive" /\ sig.err = None /\ Capturing)
                => /\ sig'.err = None
                   /\ sig'.ret = Converted(sig.arg, sig.logical_type)
          /\ (Capturing /\ ~sig.generated /\ sig.value = 0) => sig'.ret.n = 1]_vars

\* The logical value of what is on the wire of the handle
Logical(s) ==
    IF s.logic_active_high THEN s.value ELSE Complement(s.value, s.bits)

\* C23 (filter invariance): a drive or a capture that returns on a signal
\* with a filter has invoked the filter exactly once; on drive the filter
\* saw the value given (before the inversion), on capture it saw the logical
\* value of the wire (after the inversion), for both polarities; and the
\* filter changes nothing: the value returned is the one it saw, and on an
\* active-high signal the value written is the one it saw.
C23_FilterInvariance ==
    [][(sig.filter /\ sig' # sig /\ sig'.err = None) =>
          /\ sig'.op \in {"drive", "capture"} => sig'.calls = 1
          /\ sig'.op = "drive" =>
                /\ sig'.seen = sig'.arg
                /\ sig.logic_active_high => sig'.value = sig'.seen.n
          /\ (sig'.op = "capture" /\ ~sig.generated) =>
                /\ sig'.seen.n = Logical(sig)
                /\ sig'.ret = Converted(sig'.seen, sig.logical_type)]_vars

\* drive is called on the signal in this step
Driving == sig' # sig /\ sig'.op = "drive"

\* C27 (a failed drive has no effect): drive on a signal without a handle
\* raises the not-instantiated error, drive of a value that is not of the
\* logical type (a bool being an int) raises the type error, and a drive
\* that raises has not invoked the filter, has written nothing to the handle
\* and, on a generated control, has left the cache as it was.
C27_FailedDriveNoEffect ==
    [][Driving =>
          /\ ~instantiated(sig) => sig'.err = "AttributeError"
          /\ (instantiated(sig) /\ ~isinstance(sig'.arg, sig.logical_type))
                => sig'.err = "TypeError"
          /\ sig'.err # None =>
                /\ sig'.calls = 0
                /\ sig'.value = sig.value
                /\ sig'.cache = sig.cache]_vars

\* C27 without the cache
C27_HandleUntouched ==
    [][Driving =>
          /\ ~instantiated(sig) => sig'.err = "AttributeError"
          /\ (instantiated(sig) /\ ~isinstance(sig'.arg, sig.logical_type))
                => sig'.err = "TypeError"
          /\ sig'.err # None =>
                /\ sig'.calls = 0
                /\ sig'.value = sig.value]_vars

\* ------------------------------------------------------------------------
\* The interface's signals (core.py)
\* ------------------------------------------------------------------------
Specified == itf'.op = "specify" /\ itf'.err # "ValueError"

Precedence(signals, name) ==
    (CHOOSE c \in controls(signals) : c.name = name).precedence

Precedences(signals) == {<<c.name, c.precedence>> : c \in controls(signals)}

\* The controls of group A that are in the interface keep the precedences
\* they have in A, those of group B have gone up by the greatest of A plus
\* one, and each of B is above each of A
Placed(A, B, signals) ==
    LET top == SetMax({a.precedence : a \in A})
        inA == {a \in A : a.name \in Names(signals)}
        inB == {b \in B : b.name \in Names(signals)}
    IN  /\ \A a \in inA : Precedence(signals, a.name) = a.precedence
        /\ \A b \in inB : Precedence(signals, b.name) = b.precedence + top + 1
        /\ \A a \in inA, b \in inB :
              Precedence(signals, b.name) > Precedence(signals, a.name)
        /\ \A x, y \in inB :
              x.precedence < y.precedence
                  <=> Precedence(signals, x.name) < Precedence(signals, y.name)

\* C24: a call of _specify that brings controls N to an interface with
\* controls E puts, with precedes, E above N by raising E by the greatest
\* precedence of N plus one, and without it N above E by raising N by the
\* greatest of E plus one; the order inside each group stays, and every
\* control of E is still there.
C24_PrecedencePlacement ==
    [][Specified =>
          LET E == controls(itf.signals)
              N == controls(Specifications[itf'.arg.k])
          IN  (E # {} /\ N # {}) =>
                  /\ Names(E) \subseteq Names(controls(itf'.signals))
                  /\ IF itf'.arg.precedes THEN Placed(N, E, itf'.signals)
                                          ELSE Placed(E, N, itf'.signals)]_vars

\* The streaming interface put under reset with precedes, and the bus added
\* to it without
C24_Witness ==
    /\ itf.op = "specify" /\ itf.err = None /\ ~itf.arg.precedes
    /\ Precedences(itf.signals) =
           { <<"reset", 0>>, <<"reset_req", 1>>, <<"ready", 2>>, <<"valid", 3>>,
             <<"grant", 4>>, <<"req", 6>> }
\* A call of _specify raises ValueError exactly when a name of its
\* specification is in the interface, and then leaves the interface as it was
DuplicateRefused ==
    itf'.op = "specify" =>
        LET dup == Names(Specifications[itf'.arg.k]) \cap Names(itf.signals) # {}
        IN  /\ dup <=> itf'.err = "ValueError"
            /\ dup => /\ itf'.signals = itf.signals
                      /\ itf'.handles = itf.handles
                      /\ itf'.filtered = itf.filtered

UniqueNames(signals) == \A x, y \in signals : x.name = y.name => x = y

\* C25: _specify raises ValueError whenever a signal of its specification has
\* the name of a signal of the interface, and then shifts no precedence, binds
\* no handle and adds no signal; so no two signals of an interface ever have
\* one name.
C25_DuplicateNames ==
    [][DuplicateRefused /\ UniqueNames(itf'.signals)]_vars

\* C25, the refusal alone
C25_Refusal == [][DuplicateRefused]_vars
\* The direction _txn is asked for
Asked(prim) ==
    CASE prim = "True" -> "FROM_PRIMARY"
      [] prim = "False" -> "TO_PRIMARY"
      [] OTHER -> "BIDIRECTIONAL"

\* C26: _txn(primary) returns exactly the names of the signals that are
\* instantiated, not meta and of the direction asked for (from the primary
\* for True, to the primary for False, bidirectional for None); no control
\* and no signal without a handle is named in it.
C26_Txn ==
    [][itf'.op = "txn" =>
          /\ \A n \in AllNames :
                n \in itf'.ret <=>
                    \E x \in itf.signals :
                        /\ x.name = n /\ n \in itf.handles /\ ~x.meta
                        /\ x.direction = Asked(itf'.arg.primary)
          /\ itf'.ret \subseteq AllNames
          /\ itf'.ret \cap Names(controls(itf.signals)) = {}
          /\ itf'.ret \subseteq itf.handles]_vars

\* The bus on an entity without io: asked for the signals to the primary,
\* _txn names resp, and neither the control grant nor anything else
C26_Witness ==
    /\ itf.op = "txn" /\ itf.arg.primary = "False"
    /\ itf.ret = {"resp"}
    /\ "grant" \in itf.handles
    /\ "io" \in Names(itf.signals) \ itf.handles
\* ------------------------------------------------------------------------
\* The machine from tick to tick (model.py)
\* ------------------------------------------------------------------------
\* The controls of the interface that have a handle
Instantiated == Names(controls(InterfaceSignals)) \cap bound

\* The path s goes through a value state of control c that names the value
\* now on the wire of c
Holds(s, c) == \E l \in {"FLW", "FXD"} : At(s, Upper(c), l, Str(wire[c]))

\* Model m is in a tagged leaf, left there by the tick before, whose path
\* names for every instantiated control the value the control has now
Steady(m) ==
    LET n == get_state(machine(m, bound, props), state[m])
    IN  /\ state[m] # TOP_NULL
        /\ is_leaf(n) /\ (is_flow(n) \/ is_fix(n))
        /\ \A c \in Instantiated : Holds(state[m], c)

\* C28 (steady state): a tick that finds the machine in a leaf tagged flow or
\* fix, with every instantiated control at the value it had on the tick
\* that led there, ends in the same leaf, raises no protocol error of the
\* context check and invokes the reactions of that leaf again.
C28_SteadyState ==
    [][\A p \in Callers :
          (Tick(p) /\ Steady(tgt[p])) =>
             /\ ~Raised(p, "ProtocolError:Context")
             /\ state'[tgt[p]] = state[tgt[p]]
             /\ pc'[p] # "raised" =>
                   Len(ran'[p]) + Len(pend'[p]) = Len(Reached(tgt[p]).reactions)]_vars
\* ------------------------------------------------------------------------
\* The elaborated state tree (model.py)
\* ------------------------------------------------------------------------
\* The states of the tree below and including n
RECURSIVE Nodes(_)
Nodes(n) == {n} \cup UNION {Nodes(n.children[i]) : i \in DOMAIN n.children}

ChildNames(n) == {n.children[i].name : i \in DOMAIN n.children}

LeafTagged(n) == is_leaf(n) => (is_flow(n) \/ is_fix(n))

InitialExists(n) == ~is_leaf(n) => n.initial \in ChildNames(n)

TransitionsResolve(n) ==
    \A i \in DOMAIN n.transitions :
        /\ Range(n.transitions[i].source) \subseteq ChildNames(n)
        /\ n.transitions[i].dest \in ChildNames(n)

\* C29 (well-formed elaboration): in the state tree elaborated for a model,
\* every leaf is tagged flow or fix, the initial state of every state with
\* children is one of its children, and the sources and the destination of
\* every transition are children of the state that declares it.
C29_WellFormed ==
    \A m \in Models :
        \A n \in Nodes(machine(m, bound, props)) :
            LeafTagged(n) /\ InitialExists(n) /\ TransitionsResolve(n)
\* ------------------------------------------------------------------------
\* Reactions and the control context (model.py)
\* ------------------------------------------------------------------------
\* The states of the tree below and including n, each with its path; path is
\* the path of the parent of n
RECURSIVE NodesAt(_, _)
NodesAt(n, path) ==
    {<<path \o <<n.name>>, n>>}
        \cup UNION {NodesAt(n.children[i], path \o <<n.name>>) : i \in DOMAIN n.children}

\* The reactions of model m registered on a control and a value whose value
\* state the path s goes through
OnPath(m, s) ==
    {r.fn : r \in {x \in reactions(m) :
                       \E l \in {"FLW", "FXD"} : At(s, Upper(x.cname), l, Str(x.val))}}

NoRepeat(seq) == Cardinality(Range(seq)) = Len(seq)

\* Every state other than the INIT stubs carries the reactions registered on
\* the control values of its path, once each
Attached(m) ==
    \A x \in NodesAt(machine(m, bound, props), <<>>) :
        x[2].name # "INIT" =>
            Range(x[2].reactions) = OnPath(m, x[1]) /\ NoRepeat(x[2].reactions)

\* A tick of caller p invokes, at once or after the awaits of the reactions,
\* the reactions on the path of the leaf it reaches, and none on a control
\* that has a handle and was sampled at another value
Invoked(p) ==
    LET m == tgt[p]
        all == ran'[p] \o pend'[p]
    IN  /\ Raised(p, "ProtocolError:Context") => all = <<>>
        /\ pc'[p] # "raised" => Range(all) = OnPath(m, state'[m]) /\ NoRepeat(all)
        /\ Range(all) \subseteq OnPath(m, state'[m])
        /\ \A r \in reactions(m) :
              (r.fn \in Range(all) /\ r.cname \in bound) => wire[r.cname] = r.val

\* The event loop resumed after an await invokes what was left to invoke
Resumed(p) ==
    /\ \E k \in 0..Len(pend[p]) : ran'[p] = ran[p] \o SubSeq(pend[p], 1, k)
    /\ pc'[p] # "raised" => ran'[p] \o pend'[p] = ran[p] \o pend[p]

\* C30 (reactions follow the control context): a reaction registered on
\* control c and value v is carried by the value state v of c and by the
\* states below it, so that each tick of the event loop invokes exactly the
\* reactions whose control and value lie on the path of the leaf reached, and
\* never a reaction on (c, v) when c, having a handle, was sampled at a value
\* other than v.
C30_ReactionsFollowContext ==
    [][\A p \in Callers :
          /\ Tick(p) => Attached(tgt[p]) /\ Invoked(p)
          /\ (pc[p] = "nts" /\ pc'[p] # "nts") => Resumed(p)]_vars

\* The source has run valid_cycle in the leaf of valid True, the sink's
\* caller has run reset in the leaf of reset True
C30_Witness ==
    \E p, q \in Callers :
        /\ tgt[p] = "src" /\ pc[p] = "done" /\ ran[p] = <<"valid_cycle">>
        /\ At(state["src"], "VALID", "FLW", "TRUE")
        /\ tgt[q] = "snk" /\ pc[q] = "ret" /\ ran[q] = <<"reset">>
        /\ At(state["snk"], "RESET", "FXD", "TRUE")
\* ------------------------------------------------------------------------
\* The levels of the machine (model.py)
\* ------------------------------------------------------------------------
\* C31 (delayed controls keep the inner levels reachable): with an allowance
\* on ready, a tick that samples reset low and ready at its flow value True
\* and passes the context check has evaluated the control of the next level:
\* the machine is in the value state of valid that the sample of valid names.
C31_InnerLevelsReachable ==
    [][\A p \in Callers :
          (DelayTick(p) /\ wire.ready /\ ~Raised(p, "ProtocolError:Context")) =>
             \E l \in {"FLW", "FXD"} :
                 At(state'[tgt[p]], "VALID", l, Str(wire.valid))]_vars
\* The number of advance events worked off until the queue is empty
RECURSIVE Events(_, _, _, _)
Events(root, path, e, queue) ==
    IF queue = 0 THEN 0
    ELSE LET r == trigger(root, path, e)
         IN  1 + Events(root, r.state, r.e, queue - 1 + r.queued)

\* The length of the longest path of the tree n
RECURSIVE Depth(_)
Depth(n) ==
    IF is_leaf(n) THEN 1
    ELSE 1 + SetMax({Depth(n.children[i]) : i \in DOMAIN n.children})

\* The advance of a tick of caller p takes no more events than the tree is
\* deep
ChainBounded(p) ==
    LET root == machine(tgt[p], bound, props)
    IN  Events(root, state[tgt[p]], Env(tgt[p]), 1) <= Depth(root)

\* C32 (the advance chain terminates): on every tick the advance of the event
\* loop and the advances issued by the on_enter callbacks are worked off in
\* no more events than the state tree is deep, and leave the machine at a
\* leaf.
C32_AdvanceChain ==
    [][\A p \in Callers :
          Tick(p) => ChainBounded(p) /\ is_leaf(Reached(tgt[p]))]_vars

\* C32, the bound alone
C32_Bounded == [][\A p \in Callers : Tick(p) => ChainBounded(p)]_vars
\* The controls the level specification declares and the entity has
Level == {c \in Range(LevelDeclaration) : c.name \in itf.entity}

\* The machine of the interface is in the nest of control c, in its flow
\* value v
InNest(c, v) == At(itf'.state, Upper(c.name), "FLW", Str(v))

Taken == Names(LevelSpecification) \cap Names(itf.signals) # {}

\* C40 (no control is lost): once an interface has taken a specification,
\* its controls view names every control the specification declares, two of
\* one precedence included, and floor and ceiling are the controls of the
\* least and of the greatest precedence.
C40_NoControlLost ==
    /\ Taken => Names(Range(LevelDeclaration)) \subseteq Names(controls(itf.signals))
    /\ \A c \in controls(itf.signals) :
          /\ c \in floor(itf.signals)
                <=> \A d \in controls(itf.signals) : c.precedence <= d.precedence
          /\ c \in ceiling(itf.signals)
                <=> \A d \in controls(itf.signals) : c.precedence >= d.precedence

\* C40, floor and ceiling alone
C40_FloorCeiling ==
    \A c \in controls(itf.signals) :
        /\ c \in floor(itf.signals)
              <=> \A d \in controls(itf.signals) : c.precedence <= d.precedence
        /\ c \in ceiling(itf.signals)
              <=> \A d \in controls(itf.signals) : c.precedence >= d.precedence
\* The state the machine of model m is in before the step
Tree(m) == machine(m, bound, props)

\* The forced reactions of model m on controls without a handle
Forced(m) == {r \in reactions(m) : r.force /\ r.cname \notin bound}

\* The states of the tree, each with its path, that have the node of a
\* control without a handle as a child
Virtual(m) ==
    {x \in NodesAt(Tree(m), <<>>) :
        \E r \in Forced(m) : Upper(r.cname) \in ChildNames(x[2])}

\* A flower that was given a virtual level: it has lost its flow tag and has
\* as its only and initial child a leaf tagged flow, named after the
\* control, with the reactions of the flower and then the forced one
VirtualLevel(m, f) ==
    \E r \in Forced(m) :
        /\ ~is_flow(f) /\ f.initial = Upper(r.cname) /\ Len(f.children) = 1
        /\ LET leaf == f.children[1]
           IN  /\ leaf.name = Upper(r.cname) /\ is_leaf(leaf) /\ leaf.tags = {"flow"}
               /\ leaf.reactions = f.reactions \o <<r.fn>>

\* The names of the controls without a handle and without a forced reaction
Unforced(m) ==
    {Upper(c.name) : c \in {d \in controls(InterfaceSignals) :
                               /\ d.name \notin bound
                               /\ \A r \in Forced(m) : r.cname # d.name}}

\* C34 (forced virtual level): on an entity without valid, on which the sink
\* has the forced reaction valid_cycle, every state of the tree that has the
\* level of valid below it is a former flow leaf with the single initial
\* child VALID, a leaf tagged flow that carries the reactions of the flower
\* and valid_cycle; a tick that reaches such a state ends in the leaf VALID
\* and invokes valid_cycle; a control without handle and without forced
\* reaction has no state in the tree.
C34_ForcedVirtualLevel ==
    [][\A p \in Callers :
          Tick(p) =>
             LET m == tgt[p]
             IN  /\ Virtual(m) # {}
                 /\ \A x \in Virtual(m) :
                       /\ VirtualLevel(m, x[2])
                       /\ (Len(state'[m]) >= Len(x[1])
                            /\ SubSeq(state'[m], 1, Len(x[1])) = x[1])
                           => /\ state'[m] = x[1] \o <<"VALID">>
                              /\ "valid_cycle" \in Range(ran'[p])
                 /\ \A x \in NodesAt(Tree(m), <<>>) : x[2].name \notin Unforced(m)]_vars

\* The sink on an entity without valid and with ready has returned from a
\* tick with ready True that ran valid_cycle in the virtual leaf
C34_Witness ==
    \E p \in Callers :
        /\ "ready" \in bound /\ "data" \notin bound
        /\ tgt[p] = "snk" /\ pc[p] = "done" /\ ran[p] = <<"valid_cycle">>
        /\ state["snk"] = <<"TOP", "ROOT", "RESET", "FLW", "FALSE",
                            "READY", "FLW", "TRUE", "VALID">>
\* ------------------------------------------------------------------------
\* The dispatch of advance (model.py, the machine built with queued=True)
\* ------------------------------------------------------------------------
\* The leaf the samples on the wires name: level by level the value state of
\* the sample, and the levels below it while the sample is a flow value
RECURSIVE Named(_)
Named(levels) ==
    IF levels = <<>> THEN <<>>
    ELSE LET c == Head(levels)
             v == wire[c.name]
         IN  IF c.name \notin bound THEN Named(Tail(levels))
             ELSE IF v \in c.flow_vals
             THEN <<Upper(c.name), "FLW", Str(v)>> \o Named(Tail(levels))
             ELSE <<Upper(c.name), "FXD", Str(v)>>

NamedLeaf ==
    <<"TOP", "ROOT">>
        \o Named(SortedControls(controls(Configure(InterfaceSignals, bound, props))))

\* C35 (trigger dispatch): advance takes the first transition, from the
\* current leaf upward, whose source is on the path and whose guards hold,
\* one per trigger, and works off the advances of the on_enter callbacks
\* after it: a tick that finds the machine anywhere but in the leaf the
\* samples name ends in that leaf, by the transitions of the nests; a tick
\* that finds it there takes the transition of TOP from ROOT to NULL, no
\* transition further down having its guards true.
C35_TriggerDispatch ==
    [][\A p \in Callers :
          Tick(p) =>
             IF state[tgt[p]] = NamedLeaf
             THEN state'[tgt[p]] = TOP_NULL
             ELSE state'[tgt[p]] = NamedLeaf]_vars

\* A tick has taken the source from the leaf of valid False to that of valid
\* True
C35_Witness ==
    \E p \in Callers :
        /\ tgt[p] = "src" /\ pc[p] = "nts" /\ pend[p] = <<"valid_cycle">>
        /\ state["src"] = NamedLeaf
        /\ At(state["src"], "VALID", "FLW", "TRUE")
\* ------------------------------------------------------------------------
\* The phases of a tick (model.py, _event_loop)
\* ------------------------------------------------------------------------
\* The reactions caller p's event loop invokes on this step
Invocations(p) ==
    IF Len(ran'[p]) >= Len(ran[p]) /\ SubSeq(ran'[p], 1, Len(ran[p])) = ran[p]
    THEN {ran'[p][i] : i \in (Len(ran[p]) + 1)..Len(ran'[p])}
    ELSE Range(ran'[p])

C38_NoEmptyRead ==
    [][\A p \in Callers :
          (op[p] = "input" /\ tgt[p] = "src") =>
             /\ ~Raised(p, "IndexError")
             /\ ~Raised(p, "KeyError")
             /\ Returns(p) => ~busy'["src"]]_vars
\* ------------------------------------------------------------------------
\* A call that ends in an error (model.py, input and output)
\* ------------------------------------------------------------------------
ProtocolErrors ==
    {"ProtocolError:Context", "ProtocolError:DuplicateSOP",
     "ProtocolError:OutsidePacket", "ProtocolError:ChannelChanged"}

\* The event loop of caller p's input or output raises a protocol error
Aborts(p) ==
    /\ op[p] \in {"input", "output"}
    /\ pc[p] \in {"ro", "nts"} /\ pc'[p] = "raised"
    /\ err'[p] \in ProtocolErrors

\* C39 (a model stays usable after an error): when the event loop of an input
\* or output call raises a protocol error the call ends with busy cleared,
\* so that the next call on the model acquires it.
C39_UsableAfterError ==
    [][\A p \in Callers : Aborts(p) => ~busy'[tgt[p]]]_vars
=============================================================================
